---- MODULE Spec2Model ----
(***************************************************************************)
(* Verification model of the rsh front end: the recursive-descent parser   *)
(* (src/src/interp/parse.rs) and the word-expansion engine                 *)
(* (src/src/interp/expand.rs).                                             *)
(*                                                                         *)
(* The parser is a pure function from a token queue to a result, so it is  *)
(* modelled as operators that follow the code statement by statement; the  *)
(* state machine feeds it token queues built from small fragments.         *)
(* Strings that the code inspects character by character (words under      *)
(* expansion) are sequences of one-character strings.                      *)
(***************************************************************************)
EXTENDS Integers, Sequences, FiniteSets, TLC

VARIABLES
    tokens,   \* the token queue handed to the parser (ParseState.tokens)
    lin,      \* node queue after phase 1 of the top-level parse_linear, before joining
    p1,       \* node queue after the redirection pass of join_at_operators
    p2,       \* node queue after the pipeline pass (flattened)
    p3,       \* result of the top-level parse_linear (after the chain pass)
    ast,      \* result of get_tree
    word,     \* the text of the word handed to the expansion engine
    expanded, \* result of the expansion of word
    pc,       \* "input" while the input is being written, "parsed" or "expanded" afterwards
    event_loop, \* the event loop: its channel, the exit code and what it did last (EventLoop)
    descent,  \* a DescentContext under its operations, with what the last one returned
    subject   \* the node handed to propagate_redirections or to expand_arguments

vars == <<tokens, lin, p1, p2, p3, ast, word, expanded, pc, event_loop, descent, subject>>

-----------------------------------------------------------------------------
(* Generic helpers *)

Front(s) == s[1]
Back(s) == s[Len(s)]
PopFront(s) == SubSeq(s, 2, Len(s))
PopBack(s) == SubSeq(s, 1, Len(s) - 1)
PushFront(s, e) == <<e>> \o s
PushBack(s, e) == s \o <<e>>

-----------------------------------------------------------------------------
(* Span, results and errors *)

Span(start, end) == [start |-> start, end |-> end]
SpanNew == Span(0, 0)

Ok(ctx) == [st |-> "ok", ctx |-> ctx]
\* ShError::from_parse builds the ParsingError kind, from_syntax the
\* InvalidSyntax kind, from_internal the InternalError kind.
from_parse(msg, span) == [st |-> "err", kind |-> "ParsingError", msg |-> msg, span |-> span]
from_syntax(msg, span) == [st |-> "err", kind |-> "InvalidSyntax", msg |-> msg, span |-> span]
from_internal(msg) == [st |-> "err", kind |-> "InternalError", msg |-> msg, span |-> SpanNew]
\* panic!, unreachable!, unimplemented!, todo! and a failed unwrap abort the process
Panic(what) == [st |-> "panic", what |-> what]
NoResult == [st |-> "none"]

\* let val = ...; followed by the code K that uses it
Bind(val, K(_)) == K(val)
\* the ? operator: an Err (or an abort) leaves the function at once, an Ok
\* value goes on into the code K that follows
Try(res, K(_)) == IF res.st = "ok" THEN K(res) ELSE res

-----------------------------------------------------------------------------
(* Tokens *)

OPENERS == {"If", "For", "Until", "While", "Select", "Match"}

BUILTINS == {"echo"}
\* names with a definition in the function table of the shell environment
FUNCTIONS == {"f"}
\* words of the form [ ... ]
TestTexts == {"[ a ]"}

Redir(op, fd, file) == [op |-> op, fd_target |-> fd, file_target |-> file]
\* the redir field of a token that is no redirection
NoRedir == Redir("None", <<>>, <<>>)

\* Tk: class is the TkType variant, redir the payload of a Redirection
\* token, value the value of an Assignment token (its text is the key)
Tk(class, text, span, redir, value) ==
    [class |-> class, text |-> text, span |-> span, redir |-> redir, value |-> value]

-----------------------------------------------------------------------------
(* AST nodes *)

\* Every node carries nd_type, command, span, flags and redirs; the other
\* fields are those of its NdType variant.
OpNode(t, span, flags) ==
    [nd_type |-> t, command |-> <<>>, span |-> span, flags |-> flags, redirs |-> <<>>]
NodeNew == OpNode("NullNode", SpanNew, {})
NodeFrom(deck, span) ==
    [nd_type |-> "Root", command |-> <<>>, span |-> span, flags |-> {}, redirs |-> <<>>,
     deck |-> deck]
NdArgv(t, cmd, span, flags, argv) ==
    [nd_type |-> t, command |-> cmd, span |-> span, flags |-> flags, redirs |-> <<>>,
     argv |-> argv]
NdBodyArgv(t, cmd, span, flags, body, argv) ==
    [nd_type |-> t, command |-> cmd, span |-> span, flags |-> flags, redirs |-> <<>>,
     body |-> body, argv |-> argv]
NdBody(t, span, flags, body) ==
    [nd_type |-> t, command |-> <<>>, span |-> span, flags |-> flags, redirs |-> <<>>,
     body |-> body]
NdLoopCond(span, cond) ==
    [nd_type |-> "LoopCond", command |-> <<>>, span |-> span, flags |-> {}, redirs |-> <<>>,
     cond |-> cond]
NdLoop(span, flags, condition, logic) ==
    [nd_type |-> "Loop", command |-> <<>>, span |-> span, flags |-> flags, redirs |-> <<>>,
     condition |-> condition, logic |-> logic]
NdFor(span, flags, loop_vars, loop_arr, loop_body) ==
    [nd_type |-> "For", command |-> <<>>, span |-> span, flags |-> flags, redirs |-> <<>>,
     loop_vars |-> loop_vars, loop_arr |-> loop_arr, loop_body |-> loop_body]
NdMatch(span, in_var, arms) ==
    [nd_type |-> "Match", command |-> <<>>, span |-> span, flags |-> {}, redirs |-> <<>>,
     in_var |-> in_var, arms |-> arms]
NdSelect(span, flags, select_var, opts, body) ==
    [nd_type |-> "Select", command |-> <<>>, span |-> span, flags |-> flags, redirs |-> <<>>,
     select_var |-> select_var, opts |-> opts, body |-> body]
NdIf(span, flags, cond_blocks, else_block) ==
    [nd_type |-> "If", command |-> <<>>, span |-> span, flags |-> flags, redirs |-> <<>>,
     cond_blocks |-> cond_blocks, else_block |-> else_block]
NdPipelineBranch(left, right, both) ==
    [nd_type |-> "PipelineBranch", command |-> <<>>, span |-> Span(0, 0), flags |-> {},
     redirs |-> <<>>, left |-> left, right |-> right, both |-> both]
NdPipeline(span, flags, redirs, commands, both) ==
    [nd_type |-> "Pipeline", command |-> <<>>, span |-> span, flags |-> flags,
     redirs |-> redirs, commands |-> commands, both |-> both]
NdChain(commands, op) ==
    [nd_type |-> "Chain", command |-> <<>>, span |-> Span(0, 0), flags |-> {},
     redirs |-> <<>>, commands |-> commands, op |-> op]
NdFuncDef(def, name, body) ==
    [nd_type |-> "FuncDef", command |-> <<def>>, span |-> def.span, flags |-> {},
     redirs |-> <<>>, name |-> name, body |-> body]
NdAssignment(span, name, value, cmd) ==
    [nd_type |-> "Assignment", command |-> <<>>, span |-> span, flags |-> {"VALID_OPERAND"},
     redirs |-> <<>>, name |-> name, value |-> value, cmd |-> cmd]
NdRedirection(span, redir) ==
    [nd_type |-> "Redirection", command |-> <<>>, span |-> span, flags |-> {"IS_OP"},
     redirs |-> <<>>, redir |-> redir]

-----------------------------------------------------------------------------
(* DescentContext *)

DescentContextNew(tks) == [tokens |-> tks, root |-> <<>>, start |-> 0, end |-> 0]

mark_start(ctx) == ctx.start
mark_end(ctx) == ctx.end

\* next_tk: [tk |-> <<t>> or <<>>, ctx |-> context afterwards]
next_tk(ctx) ==
    IF ctx.tokens = <<>>
    THEN [tk |-> <<>>, ctx |-> ctx]
    ELSE [tk |-> <<Front(ctx.tokens)>>,
          ctx |-> [ctx EXCEPT !.tokens = PopFront(@),
                              !.start = Front(ctx.tokens).span.start,
                              !.end = Front(ctx.tokens).span.end]]

last_tk(ctx) ==
    IF ctx.tokens = <<>>
    THEN [tk |-> <<>>, ctx |-> ctx]
    ELSE [tk |-> <<Back(ctx.tokens)>>, ctx |-> [ctx EXCEPT !.tokens = PopBack(@)]]

front_tk(ctx) == IF ctx.tokens = <<>> THEN <<>> ELSE <<Front(ctx.tokens)>>
back_tk(ctx) == IF ctx.tokens = <<>> THEN <<>> ELSE <<Back(ctx.tokens)>>

attach_node(ctx, node) == [ctx EXCEPT !.root = PushBack(@, node)]
push_front_tk(ctx, tk) == [ctx EXCEPT !.tokens = PushFront(@, tk)]

compute_span(tks) ==
    IF tks = <<>> THEN Span(0, 0) ELSE Span(Front(tks).span.start, Back(tks).span.end)

-----------------------------------------------------------------------------
(* Phase 2: join_at_operators *)

OkV(v) == [st |-> "ok", v |-> v]

check_valid_operand(node) ==
    node.nd_type \in {"PipelineBranch", "Pipeline", "Subshell", "Chain", "If", "For",
                      "Loop", "Select", "Function", "Command", "Builtin"}

\* helper::flatten_tree: walks the binary left/right tree built by the joining
\* pass and concatenates its leaves from left to right.
RECURSIVE flatten_tree(_, _)
flatten_tree(left, right) ==
    LET walk(n) == IF n.nd_type \in {"PipelineBranch", "ChainTree"}
                   THEN flatten_tree(n.left, n.right)
                   ELSE <<n>>
    IN walk(left) \o walk(right)

\* the redirection put in front of the list
attach_redir_front(target_node, node) ==
    [target_node EXCEPT !.redirs = PushFront(@, node)]

\* First pass, one Redirection node: attach it to the node at the back of the buffer
attach_redir(target_node, node) ==
    [target_node EXCEPT !.redirs = PushBack(@, node)]

RECURSIVE redir_pass(_, _)
redir_pass(root, buffer) ==
    IF root = <<>> THEN OkV(buffer)
    ELSE LET node == Front(root) IN
         IF node.nd_type = "Redirection"
         THEN IF buffer # <<>>
              THEN redir_pass(PopFront(root),
                              PushBack(PopBack(buffer), attach_redir(Back(buffer), node)))
              ELSE from_parse("Found this orphaned redirection operator", node.span)
         ELSE redir_pass(PopFront(root), PushBack(buffer, node))

\* the operands of the branch exchanged
pipeline_branch_swapped(left, right, both) ==
    NdPipelineBranch([right EXCEPT !.flags = @ \cup {"IN_PIPE"}],
                     [left EXCEPT !.flags = @ \cup {"IN_PIPE"}], both)

\* Second pass, one Pipe/PipeBoth marker with both operands present
pipeline_branch(left, right, both) ==
    NdPipelineBranch([left EXCEPT !.flags = @ \cup {"IN_PIPE"}],
                     [right EXCEPT !.flags = @ \cup {"IN_PIPE"}], both)

RECURSIVE pipe_pass(_, _)
pipe_pass(root, buffer) ==
    IF root = <<>> THEN OkV(buffer)
    ELSE LET node == Front(root)
             rest == PopFront(root) IN
         IF node.nd_type \in {"Pipe", "PipeBoth"}
         THEN LET both == (node.nd_type = "PipeBoth") IN
              IF buffer # <<>>
              THEN IF rest # <<>>
                   THEN LET left == Back(buffer)
                            right == Front(rest) IN
                        IF ~check_valid_operand(left)
                        THEN from_parse("The left side of this pipeline is invalid", node.span)
                        ELSE IF ~check_valid_operand(right)
                        THEN from_parse("The right side of this pipeline is invalid", node.span)
                        ELSE pipe_pass(PopFront(rest),
                                       PushBack(PopBack(buffer), pipeline_branch(left, right, both)))
                   ELSE from_parse("This pipeline is missing a right operand", node.span)
              ELSE from_parse("This pipeline is missing a left operand", node.span)
         ELSE IF node.nd_type = "Cmdsep"
         THEN pipe_pass(rest, buffer)
         ELSE pipe_pass(rest, PushBack(buffer, node))

\* Flattening of the PipelineBranch trees left in the buffer
flatten_pipeline(node) ==
    IF node.nd_type = "PipelineBranch"
    THEN NdPipeline(node.span, node.flags, node.redirs,
                    flatten_tree(node.left, node.right), node.both)
    ELSE node

flatten_pass(buffer) == [i \in 1..Len(buffer) |-> flatten_pipeline(buffer[i])]

\* Third pass, one And/Or marker with both operands present
chain_node(left, right, op) ==
    NdChain(flatten_tree(left, right), op)

RECURSIVE chain_pass(_, _)
chain_pass(root, buffer) ==
    IF root = <<>> THEN OkV(buffer)
    ELSE LET node == Front(root)
             rest == PopFront(root) IN
         IF node.nd_type \in {"And", "Or"}
         THEN IF buffer # <<>>
              THEN IF rest # <<>>
                   THEN LET left == Back(buffer)
                            right == Front(rest) IN
                        IF ~check_valid_operand(left)
                        THEN from_parse("The left side of this chain is invalid", node.span)
                        ELSE IF ~check_valid_operand(right)
                        THEN from_parse("The right side of this chain is invalid", node.span)
                        ELSE chain_pass(PopFront(rest),
                                        PushBack(PopBack(buffer), chain_node(left, right, node)))
                   ELSE from_parse("This chain is missing a right operand", node.span)
              ELSE from_parse("This chain is missing a left operand", node.span)
         ELSE IF node.nd_type = "Cmdsep"
         THEN chain_pass(rest, buffer)
         ELSE chain_pass(rest, PushBack(buffer, node))

\* The pipeline pass followed by the flattening of its buffer
pipeline_pass(root) ==
    Try(pipe_pass(root, <<>>), LAMBDA r : OkV(flatten_pass(r.v)))

\* the passes with the chain pass run before the pipeline pass
join_at_operators_chains_first(ctx) ==
    Try(redir_pass(ctx.root, <<>>), LAMBDA r1 :
    Try(chain_pass(r1.v, <<>>), LAMBDA r2 :
    Try(pipeline_pass(r2.v), LAMBDA r3 :
    Ok([ctx EXCEPT !.root = r3.v]))))

join_at_operators(ctx) ==
    Try(redir_pass(ctx.root, <<>>), LAMBDA r1 :
    Try(pipeline_pass(r1.v), LAMBDA r2 :
    Try(chain_pass(r2.v, <<>>), LAMBDA r3 :
    Ok([ctx EXCEPT !.root = r3.v]))))

-----------------------------------------------------------------------------
(* Leaf builders *)

build_redirection(ctx0) ==
    LET n == next_tk(ctx0) IN
    IF n.tk = <<>>
    THEN from_internal("Called build_redirection with an empty token queue")
    ELSE
    LET redir_tk == n.tk[1]
        span == redir_tk.span IN
    IF redir_tk.class # "Redirection"
    THEN from_internal("Called build_redirection() with a non-redirection token")
    ELSE
    LET redir == redir_tk.redir
        mk(r, c) == Ok(attach_node(c, NdRedirection(span, r)))
    IN
    IF redir.fd_target = <<>> /\ redir.file_target = <<>>
    THEN LET m == next_tk(n.ctx) IN
         IF m.tk = <<>>
         THEN from_parse("Did not find an output for this redirection operator", span)
         ELSE IF m.tk[1].class \notin {"Ident", "String"}
         THEN from_parse("Expected identifier after redirection operator", span)
         ELSE mk([redir EXCEPT !.file_target = m.tk], m.ctx)
    ELSE mk(redir, n.ctx)

\* build_command, lines 1391-1403: classification of the leading token
cmd_type_of(cmd) ==
    IF cmd.text \in FUNCTIONS THEN "Function"
    ELSE IF cmd.class = "Subshell" THEN "Subshell"
    ELSE IF cmd.class = "CommandSub" THEN "CommandSub"
    ELSE IF cmd.text \in BUILTINS \/ cmd.text \in TestTexts THEN "Builtin"
    ELSE "Command"

\* the held redirections go back in the reverse order
requeue_redirs_reversed(ctx, held) ==
    [ctx EXCEPT !.tokens = [i \in 1..Len(held) |-> held[Len(held) + 1 - i]] \o @]

\* build_command, lines 1410-1415: the held redirections go back to the front
\* of the token queue, in the order in which they were met
requeue_redirs(ctx, held) == [ctx EXCEPT !.tokens = held \o @]

\* the operator that ends the command pushed back twice
requeue_operator_twice(ctx, tk, held) ==
    requeue_redirs(push_front_tk(push_front_tk(ctx, tk), tk), held)

\* build_command, lines 1408-1417: the operator that ends the command goes
\* back to the front of the token queue, and the held redirections before it
requeue_operator(ctx, tk, held) == requeue_redirs(push_front_tk(ctx, tk), held)

\* build_command, lines 1405-1456: the argv loop
RECURSIVE build_command_loop(_, _, _)
build_command_loop(ctx0, argv, held) ==
    Bind(next_tk(ctx0), LAMBDA n :
    IF n.tk = <<>>
    THEN [st |-> "ok", ctx |-> n.ctx, argv |-> argv, held |-> held, background |-> FALSE]
    ELSE
    LET tk == n.tk[1]
        ctx == n.ctx IN
    CASE tk.class \in {"PipeBoth", "Cmdsep", "LogicAnd", "LogicOr", "Pipe"} ->
            [st |-> "ok", ctx |-> requeue_operator(ctx, tk, held),
             argv |-> argv, held |-> <<>>, background |-> FALSE]
      [] tk.class = "Background" ->
            [st |-> "ok", ctx |-> ctx, argv |-> argv, held |-> held, background |-> TRUE]
      [] tk.class = "Subshell" -> build_command_loop(ctx, argv, held)
      [] tk.class \in {"Ident", "CommandSub", "String", "VariableSub", "Assignment"} ->
            build_command_loop(ctx, PushBack(argv, tk), held)
      [] tk.class = "Redirection" ->
            IF tk.redir.fd_target = <<>>
            THEN LET m == next_tk(ctx) IN
                 IF m.tk # <<>> /\ m.tk[1].class \in {"Ident", "String"}
                 THEN build_command_loop(m.ctx, argv,
                          PushBack(held, [tk EXCEPT !.redir.file_target = m.tk]))
                 ELSE build_command_loop(m.ctx, argv, PushBack(held, tk))
            ELSE build_command_loop(ctx, argv, PushBack(held, tk))
      [] tk.class = "SOI" -> build_command_loop(ctx, argv, held)
      [] tk.class = "EOI" ->
            [st |-> "ok", ctx |-> requeue_redirs(ctx, held),
             argv |-> argv, held |-> <<>>, background |-> FALSE]
      [] OTHER -> from_parse("Unexpected token", tk.span))

build_command(ctx0) ==
    IF ctx0.tokens = <<>> THEN Panic("build_command: unwrap of an empty token queue")
    ELSE
    Try(build_command_loop(ctx0, <<>>, <<>>), LAMBDA r :
    LET cmd == Front(ctx0.tokens)
        cmd_type == cmd_type_of(cmd)
        ctx == requeue_redirs(r.ctx, r.held)
        argv == r.argv
        command == IF argv = <<>> THEN <<>> ELSE <<Front(argv)>>
        span == compute_span(argv)
        node ==
            CASE cmd_type = "Command" ->
                    NdArgv("Command", command, span, {"VALID_OPERAND"}, argv)
              [] cmd_type = "Builtin" ->
                    NdArgv("Builtin", command, span, {"VALID_OPERAND"}, argv)
              [] cmd_type = "Function" ->
                    NdBodyArgv("Function", command, span, {"VALID_OPERAND"}, cmd.text, argv)
              [] cmd_type = "CommandSub" ->
                    NdBody("CommandSub", span, {"VALID_OPERAND"}, cmd.text)
              [] cmd_type = "Subshell" ->
                    NdBodyArgv("Subshell", <<>>, span, {"VALID_OPERAND"}, cmd.text, argv)
        flagged == IF r.background
                   THEN [node EXCEPT !.flags = @ \cup {"BACKGROUND"}]
                   ELSE node
    IN Ok(attach_node(ctx, flagged)))

-----------------------------------------------------------------------------
(* Compound-construct builders that do not recurse into the parser *)

\* build_loop, lines 1103-1140: [st, ctx, cond_root, body_root, closed]
RECURSIVE build_loop_scan(_, _, _)
build_loop_scan(ctx0, cond_root, body_root) ==
    Bind(next_tk(ctx0), LAMBDA n :
    IF n.tk = <<>>
    THEN [st |-> "ok", ctx |-> n.ctx, cond_root |-> cond_root, body_root |-> body_root,
          closed |-> FALSE]
    ELSE
    LET tk == n.tk[1]
        ctx == n.ctx IN
    CASE tk.class = "LoopCond" ->
            build_loop_scan(ctx, NdLoopCond(tk.span, tk.text), body_root)
      [] tk.class = "LoopBody" ->
            build_loop_scan(ctx, cond_root, NdBody("LoopBody", tk.span, {}, tk.text))
      [] tk.class = "Do" ->
            IF cond_root = NodeNew
            THEN from_parse("Did not find a condition for this loop", tk.span)
            ELSE build_loop_scan(ctx, cond_root, body_root)
      [] tk.class = "Done" ->
            IF body_root = NodeNew
            THEN from_parse("Did not find a body for this loop", tk.span)
            ELSE [st |-> "ok", ctx |-> ctx, cond_root |-> cond_root, body_root |-> body_root,
                  closed |-> TRUE]
      [] OTHER -> Panic("build_loop: unreachable!()"))

build_loop(condition, ctx0) ==
    Try(build_loop_scan(ctx0, NodeNew, NodeNew), LAMBDA r :
    LET span_start == mark_start(ctx0)
        span == Span(span_start, mark_end(r.ctx)) IN
    IF ~r.closed THEN from_parse("This loop is missing a done", span)
    ELSE Ok(attach_node(r.ctx,
            NdLoop(span, {"VALID_OPERAND"}, condition,
                   [condition |-> r.cond_root, body |-> r.body_root]))))

\* build_for, lines 1003-1072: s = [phase, loop_vars, loop_arr, body_root]
RECURSIVE build_for_scan(_, _, _)
build_for_scan(ctx0, span_start, s) ==
    Bind(next_tk(ctx0), LAMBDA n :
    IF n.tk = <<>> THEN [st |-> "ok", ctx |-> n.ctx, s |-> s, closed |-> FALSE]
    ELSE
    LET tk == n.tk[1]
        ctx == n.ctx
        here == Span(span_start, mark_end(ctx)) IN
    CASE tk.class = "In" ->
            IF s.loop_vars = <<>>
            THEN from_parse("This for loop didn't get any loop variables", here)
            ELSE build_for_scan(ctx, span_start, [s EXCEPT !.phase = "Array"])
      [] tk.class = "Do" ->
            LET arr == IF s.loop_arr # <<>> /\ Back(s.loop_arr).class = "Cmdsep"
                       THEN PopBack(s.loop_arr) ELSE s.loop_arr IN
            IF arr = <<>>
            THEN from_parse("This for loop got an empty array", here)
            ELSE build_for_scan(ctx, span_start, [s EXCEPT !.loop_arr = arr, !.phase = "Body"])
      [] tk.class = "Done" ->
            IF s.phase = "Vars"
            THEN from_parse("This for loop has an unterminated variable definition", here)
            ELSE IF s.phase = "Array"
            THEN from_parse("This for loop has an unterminated array definition", here)
            ELSE [st |-> "ok", ctx |-> ctx, s |-> s, closed |-> TRUE]
      [] OTHER ->
            CASE s.phase = "Vars" ->
                    build_for_scan(ctx, span_start, [s EXCEPT !.loop_vars = PushBack(@, tk)])
              [] s.phase = "Array" ->
                    IF tk.class = "LoopBody"
                    THEN build_for_scan(push_front_tk(ctx, tk), span_start,
                                        [s EXCEPT !.phase = "Body"])
                    ELSE build_for_scan(ctx, span_start, [s EXCEPT !.loop_arr = PushBack(@, tk)])
              [] s.phase = "Body" ->
                    IF tk.class = "LoopBody"
                    THEN build_for_scan(ctx, span_start,
                            [s EXCEPT !.body_root =
                                NdBody("LoopBody", tk.span, {}, tk.text)])
                    ELSE from_parse("Expected a loop body token", tk.span)
              [] OTHER -> Panic("build_for: unreachable!()"))

build_for(ctx0) ==
    Try(build_for_scan(ctx0, mark_start(ctx0),
            [phase |-> "Vars", loop_vars |-> <<>>, loop_arr |-> <<>>, body_root |-> NodeNew]),
        LAMBDA r :
    LET span == Span(mark_start(ctx0), mark_end(r.ctx)) IN
    IF ~r.closed THEN from_parse("This loop is missing a done.", span)
    ELSE Ok(attach_node(r.ctx,
            NdFor(span, {"VALID_OPERAND", "FOR_BODY"},
                  r.s.loop_vars, r.s.loop_arr, r.s.body_root))))

\* build_match, lines 1184-1199: [st, ctx, arms, span, closed]
RECURSIVE build_match_scan(_, _, _)
build_match_scan(ctx0, arms, span) ==
    Bind(next_tk(ctx0), LAMBDA n :
    IF n.tk = <<>>
    THEN [st |-> "ok", ctx |-> n.ctx, arms |-> arms, span |-> span, closed |-> FALSE]
    ELSE
    LET tk == n.tk[1]
        sp == [span EXCEPT !.end = tk.span.end] IN
    CASE tk.class = "In" -> build_match_scan(n.ctx, arms, sp)
      [] tk.class = "Done" ->
            [st |-> "ok", ctx |-> n.ctx, arms |-> arms, span |-> sp, closed |-> TRUE]
      [] tk.class = "MatchArm" -> build_match_scan(n.ctx, PushBack(arms, tk), sp)
      [] OTHER -> from_parse("Expected a match arm here", tk.span))

build_match(ctx0) ==
    IF front_tk(ctx0) # <<>> /\ front_tk(ctx0)[1].class \in {"Ident", "String"}
    THEN Bind(next_tk(ctx0), LAMBDA n :
         Try(build_match_scan(n.ctx, <<>>, Span(n.tk[1].span.start, 0)), LAMBDA r :
         IF ~r.closed
         THEN from_parse("This match statement did not get a done", r.span)
         ELSE Ok(attach_node(r.ctx,
                 NdMatch(r.span, n.tk[1], r.arms)))))
    ELSE from_parse("Did not find an input pattern for this match statement", SpanNew)

build_func_def(ctx0) ==
    LET n == next_tk(ctx0) IN
    IF n.tk = <<>> THEN Panic("build_func_def: unwrap of an empty token queue")
    ELSE
    LET def == n.tk[1] IN
    IF def.class # "FuncDef" THEN Panic("build_func_def: unreachable!()")
    ELSE
    LET m == next_tk(n.ctx) IN
    IF m.tk = <<>> THEN Panic("build_func_def: unwrap of a missing body token")
    ELSE Ok(attach_node(m.ctx,
            NdFuncDef(def, def.text, m.tk[1].text)))

-----------------------------------------------------------------------------
(* Redirection propagation *)

get_redirs(node) ==
    IF "VALID_OPERAND" \notin node.flags
    THEN from_internal("Called get_redirs with an invalid operand")
    ELSE OkV(node.redirs)

is_input_redir(redir_nd) ==
    IF redir_nd.nd_type = "Redirection" THEN redir_nd.redir.op = "Input" ELSE FALSE

\* the two baskets exchanged
get_flow_ctl_redirections_swapped(node) ==
    Try(get_redirs(node), LAMBDA r :
        [st |-> "ok",
         cond_redirs |-> SelectSeq(r.v, LAMBDA n : ~is_input_redir(n)),
         body_redirs |-> SelectSeq(r.v, is_input_redir)])

\* [st, cond_redirs, body_redirs]
get_flow_ctl_redirections(node) ==
    Try(get_redirs(node), LAMBDA r :
        [st |-> "ok",
         cond_redirs |-> SelectSeq(r.v, is_input_redir),
         body_redirs |-> SelectSeq(r.v, LAMBDA n : ~is_input_redir(n))])

\* the Root's redirections behind the redirections of every statement
push_root_redirs_behind(redirs, deck) ==
    [i \in 1..Len(deck) |-> [deck[i] EXCEPT !.redirs = @ \o redirs]]

\* propagate_redirections, lines 658-664: the Root's redirections in front of
\* the redirections of every statement of the deck
push_root_redirs(redirs, deck) ==
    [i \in 1..Len(deck) |-> [deck[i] EXCEPT !.redirs = redirs \o @]]

\* the redirections appended twice
add_redirs_twice(node, redirs) == [node EXCEPT !.redirs = @ \o redirs \o redirs]

\* lines 680-692, 711-718, 731-733, 746-748: the redirections appended to
\* the list of a condition or body node
add_redirs(node, redirs) == [node EXCEPT !.redirs = @ \o redirs]

RECURSIVE propagate_redirections(_)
RECURSIVE propagate_deck(_, _)
RECURSIVE propagate_blocks(_, _, _, _)

\* lines 665-668: the deck propagated node by node
propagate_deck(deck, new_deck) ==
    IF deck = <<>> THEN OkV(new_deck)
    ELSE Try(propagate_redirections(Front(deck)), LAMBDA r :
             propagate_deck(PopFront(deck), PushBack(new_deck, r.v)))

\* lines 676-690: the (condition, body) pairs of an If
propagate_blocks(cond_blocks, cond_redirs, body_redirs, new_cond_blocks) ==
    IF cond_blocks = <<>> THEN OkV(new_cond_blocks)
    ELSE Try(propagate_redirections(add_redirs(Front(cond_blocks).condition, cond_redirs)),
             LAMBDA c :
         Try(propagate_redirections(add_redirs(Front(cond_blocks).body, body_redirs)),
             LAMBDA b :
         propagate_blocks(PopFront(cond_blocks), cond_redirs, body_redirs,
             PushBack(new_cond_blocks, [condition |-> c.v, body |-> b.v]))))

propagate_redirections(node) ==
    CASE node.nd_type = "Root" ->
            Try(propagate_deck(push_root_redirs(node.redirs, node.deck), <<>>), LAMBDA r :
            OkV(NodeFrom(r.v, node.span)))
      [] node.nd_type = "If" ->
            Try(get_flow_ctl_redirections(node), LAMBDA f :
            Try(propagate_blocks(node.cond_blocks, f.cond_redirs, f.body_redirs, <<>>),
                LAMBDA bs :
            Try(IF node.else_block = <<>> THEN OkV(<<>>)
                ELSE Try(propagate_redirections(
                             add_redirs(node.else_block[1], f.body_redirs)),
                         LAMBDA x : OkV(<<x.v>>)),
                LAMBDA e :
            OkV(NdIf(node.span, node.flags, bs.v, e.v)))))
      [] node.nd_type = "Loop" ->
            Try(get_flow_ctl_redirections(node), LAMBDA f :
            Try(propagate_redirections(add_redirs(node.logic.condition, f.cond_redirs)),
                LAMBDA c :
            Try(propagate_redirections(add_redirs(node.logic.body, f.body_redirs)),
                LAMBDA b :
            OkV(NdLoop(node.span, node.flags, node.condition,
                       [condition |-> c.v, body |-> b.v])))))
      [] node.nd_type = "For" ->
            Try(propagate_redirections(add_redirs(node.loop_body, node.redirs)), LAMBDA b :
            OkV(NdFor(node.span, node.flags, node.loop_vars, node.loop_arr, b.v)))
      [] node.nd_type = "Select" ->
            Try(propagate_redirections(add_redirs(node.body, node.redirs)), LAMBDA b :
            OkV(NdSelect(node.span, node.flags, node.select_var, node.opts, b.v)))
      [] OTHER -> OkV(node)

-----------------------------------------------------------------------------
(* Phase 1 and the builders that re-enter it *)

\* the error with no span
closer_outside_no_span(tk) ==
    IF tk.class \in {"Do", "Done"}
    THEN from_parse("Found this outside of loop context", SpanNew)
    ELSE from_parse("Found this outside of if context", SpanNew)

\* parse_linear, lines 454-459: a closing keyword met by parse_linear itself
closer_outside(tk) ==
    IF tk.class \in {"Do", "Done"}
    THEN from_parse("Found this outside of loop context", tk.span)
    ELSE from_parse("Found this outside of if context", tk.span)

RECURSIVE parse_linear(_, _)
RECURSIVE parse_linear_scan(_, _)
RECURSIVE parse_and_attach(_, _)
RECURSIVE parse_statements(_)
RECURSIVE get_tree(_)
RECURSIVE build_if(_)
RECURSIVE build_if_scan(_, _)
RECURSIVE build_select(_)
RECURSIVE build_select_scan(_, _)
RECURSIVE build_assignment(_)

get_conditional(cond_root, cond_span, body_root, body_span) ==
    [condition |-> NodeFrom(cond_root, cond_span), body |-> NodeFrom(body_root, body_span)]

\* parse_and_attach, lines 795-797: single-statement calls until the
\* sub-context has no token left
parse_statements(sub_ctx) ==
    IF sub_ctx.tokens = <<>> THEN Ok(sub_ctx)
    ELSE Try(parse_linear(sub_ctx, TRUE), LAMBDA r : parse_statements(r.ctx))

\* lines 798-800: the parsed nodes go in front of the nodes already in root
attach_front(nodes, root) == nodes \o root

parse_and_attach(tks, root) ==
    Try(parse_statements(DescentContextNew(tks)), LAMBDA r :
    OkV(attach_front(r.ctx.root, root)))

get_tree(ctx) ==
    Try(parse_linear(ctx, FALSE), LAMBDA r :
    propagate_redirections(NodeFrom(r.ctx.root, compute_span(ctx.tokens))))

\* build_if, lines 901-908 (and 932-939, 953-960): the pending tokens are
\* parsed and the (condition, body) pair is closed
close_block(s) ==
    Try(parse_and_attach(s.cond_tokens, s.cond_root), LAMBDA c :
    Try(parse_and_attach(s.body_tokens, s.body_root), LAMBDA b :
    OkV([s EXCEPT !.cond_tokens = <<>>, !.cond_root = <<>>,
                  !.body_tokens = <<>>, !.body_root = <<>>,
                  !.logic_blocks =
                      PushBack(@, get_conditional(c.v, compute_span(s.cond_tokens),
                                                  b.v, compute_span(s.body_tokens)))])))

\* build_if, lines 876-897: a nested opener met in phase ph ("cond" or "body")
nested_opener(ctx, s, tk, ph) ==
    LET pending == IF ph = "cond" THEN s.cond_tokens ELSE s.body_tokens
        root0 == IF ph = "cond" THEN s.cond_root ELSE s.body_root IN
    Try(IF pending # <<>> THEN parse_and_attach(pending, root0) ELSE OkV(root0), LAMBDA a :
    Try(parse_linear(push_front_tk(ctx, tk), TRUE), LAMBDA r :
    LET popped == r.ctx.root # <<>>
        ctx2 == IF popped THEN [r.ctx EXCEPT !.root = PopBack(@)] ELSE r.ctx
        root1 == IF popped THEN PushBack(a.v, Back(r.ctx.root)) ELSE a.v IN
    [st |-> "ok", ctx |-> ctx2,
     s |-> IF ph = "cond"
           THEN [s EXCEPT !.cond_tokens = <<>>, !.cond_root = root1]
           ELSE [s EXCEPT !.body_tokens = <<>>, !.body_root = root1]]))

\* build_if, lines 871-972: [st, ctx, s, closed]
build_if_scan(ctx0, s) ==
    Bind(next_tk(ctx0), LAMBDA n :
    IF n.tk = <<>> THEN [st |-> "ok", ctx |-> n.ctx, s |-> s, closed |-> FALSE]
    ELSE
    LET tk == n.tk[1]
        ctx == n.ctx
        err_span == mark_start(ctx)
        here == Span(err_span, mark_end(ctx)) IN
    IF tk.class \in OPENERS
    THEN IF s.phase \in {"Condition", "Body"}
         THEN Try(nested_opener(ctx, s, tk, IF s.phase = "Condition" THEN "cond" ELSE "body"),
                  LAMBDA r : build_if_scan(r.ctx, r.s))
         ELSE Panic("build_if: unreachable!()")
    ELSE IF tk.class = "Elif" /\ s.if_context # "Else"
    THEN Try(close_block([s EXCEPT !.if_context = "Elif"]), LAMBDA r :
         build_if_scan(ctx, [r.v EXCEPT !.phase = "Condition"]))
    ELSE IF tk.class = "Then"
    THEN IF s.if_context = "Then"
         THEN from_parse("Did not find a condition for this then block", here)
         ELSE IF s.if_context = "Else"
         THEN from_parse("Else blocks do not get a then statement", here)
         ELSE build_if_scan(ctx, [s EXCEPT !.if_context = "Then", !.phase = "Body"])
    ELSE IF tk.class = "Else"
    THEN IF s.if_context # "Then"
         THEN from_parse("Was expecting a then block, get an else block instead", here)
         ELSE Try(close_block([s EXCEPT !.if_context = "Else"]), LAMBDA r :
              build_if_scan(ctx, [r.v EXCEPT !.phase = "Body"]))
    ELSE IF tk.class = "Fi"
    THEN IF s.if_context \notin {"Then", "Else"}
         THEN from_parse("Was expecting a then block, get an else block instead", here)
         ELSE
         Try(IF s.if_context = "Else"
             THEN Try(get_tree(DescentContextNew(s.body_tokens)), LAMBDA t :
                  OkV([s EXCEPT !.body_tokens = <<>>, !.else_block = <<t.v>>]))
             ELSE OkV(s), LAMBDA e :
         Try(IF e.v.body_tokens # <<>> THEN close_block(e.v) ELSE e, LAMBDA c :
         [st |-> "ok", ctx |-> ctx, s |-> c.v, closed |-> TRUE]))
    ELSE IF s.phase = "Condition"
    THEN build_if_scan(ctx, [s EXCEPT !.cond_tokens = PushBack(@, tk)])
    ELSE IF s.phase = "Body"
    THEN build_if_scan(ctx, [s EXCEPT !.body_tokens = PushBack(@, tk)])
    ELSE Panic("build_if: unreachable!()"))

\* the span of the last token only
if_span_last_token(span_start, span_end) == Span(span_end - 1, span_end)

\* build_if, lines 974-975: the span of the construct
if_span(span_start, span_end) == Span(span_start, span_end)

\* build_if, lines 858-869: the locals before the loop
if_scan_init ==
    [cond_tokens |-> <<>>, cond_root |-> <<>>, body_tokens |-> <<>>,
     body_root |-> <<>>, if_context |-> "If", logic_blocks |-> <<>>,
     else_block |-> <<>>, phase |-> "Condition"]

build_if(ctx0) ==
    Try(build_if_scan(ctx0, if_scan_init), LAMBDA r :
    LET span == if_span(mark_start(ctx0), mark_end(r.ctx)) IN
    IF ~r.closed THEN from_parse("This if statement didn't get an fi", span)
    ELSE Ok(attach_node(r.ctx,
            NdIf(span, {"VALID_OPERAND"}, r.s.logic_blocks, r.s.else_block))))

\* build_select, lines 1229-1281: s = [phase, select_var, opts, body_tokens, body_root]
build_select_scan(ctx0, s) ==
    Bind(next_tk(ctx0), LAMBDA n :
    IF n.tk = <<>> THEN [st |-> "ok", ctx |-> n.ctx, s |-> s, closed |-> FALSE]
    ELSE
    LET tk == n.tk[1]
        ctx == n.ctx IN
    IF tk.class = "In"
    THEN build_select_scan(ctx, [s EXCEPT !.phase = "Vars"])
    ELSE IF tk.class = "Do"
    THEN build_select_scan(ctx,
            [s EXCEPT !.opts = IF @ # <<>> /\ Back(@).class = "Cmdsep" THEN PopBack(@) ELSE @,
                      !.phase = "Body"])
    ELSE IF tk.class = "Done"
    THEN IF s.select_var = <<>>
         THEN from_parse("Did not find a variable for this select statement", tk.span)
         ELSE IF s.opts = <<>>
         THEN from_parse("Did not find any options for this select statement", tk.span)
         ELSE IF s.body_tokens = <<>>
         THEN from_parse("This select statement has an empty body", tk.span)
         ELSE Try(parse_and_attach(s.body_tokens, s.body_root), LAMBDA b :
              [st |-> "ok", ctx |-> ctx,
               s |-> [s EXCEPT !.body_tokens = <<>>, !.body_root = b.v],
               closed |-> TRUE])
    ELSE IF s.phase = "Condition"
    THEN build_select_scan(ctx, [s EXCEPT !.select_var = <<tk>>])
    ELSE IF s.phase = "Vars"
    THEN build_select_scan(ctx, [s EXCEPT !.opts = PushBack(@, tk)])
    ELSE IF s.phase = "Body"
    THEN IF tk.class \in OPENERS
         THEN Try(nested_opener(ctx, s, tk, "body"), LAMBDA r :
              build_select_scan(r.ctx, r.s))
         ELSE build_select_scan(ctx, [s EXCEPT !.body_tokens = PushBack(@, tk)])
    ELSE Panic("build_select: unreachable!()"))

build_select(ctx0) ==
    Try(build_select_scan(ctx0,
            [phase |-> "Condition", select_var |-> <<>>, opts |-> <<>>,
             body_tokens |-> <<>>, body_root |-> <<>>]), LAMBDA r :
    LET span == Span(mark_start(ctx0), mark_end(r.ctx)) IN
    IF ~r.closed THEN from_parse("This select statement is missing a done", span)
    ELSE
    Try(IF r.s.body_tokens # <<>>
        THEN parse_and_attach(r.s.body_tokens, r.s.body_root)
        ELSE OkV(r.s.body_root), LAMBDA b :
    IF r.s.select_var = <<>>
    THEN from_parse("Did not find a variable for this select statement", span)
    ELSE Ok(attach_node(r.ctx,
            NdSelect(span, {"VALID_OPERAND"}, r.s.select_var[1], r.s.opts,
                     NodeFrom(b.v, Span(0, mark_end(r.ctx))))))))

\* build_assignment, lines 1344-1350: the words that follow the assignment
RECURSIVE take_words(_, _)
take_words(ctx, argv) ==
    IF front_tk(ctx) # <<>> /\ front_tk(ctx)[1].class \in {"String", "Ident"}
    THEN Bind(next_tk(ctx), LAMBDA n : take_words(n.ctx, PushBack(argv, n.tk[1])))
    ELSE [ctx |-> ctx, argv |-> argv]

build_assignment(ctx0) ==
    Bind(next_tk(ctx0), LAMBDA n :
    IF n.tk = <<>> THEN Panic("build_assignment: unwrap of an empty token queue")
    ELSE
    LET ass == n.tk[1] IN
    IF ass.class # "Assignment" THEN Panic("build_assignment: unreachable!()")
    ELSE
    Bind(take_words(n.ctx, <<>>), LAMBDA w :
    Try(IF w.argv # <<>>
        THEN Try(parse_and_attach(w.argv, <<>>), LAMBDA r :
             OkV(<<[NodeFrom(r.v, Span(Front(w.argv).span.start, Back(w.argv).span.end))
                    EXCEPT !.command = <<Front(w.argv)>>]>>))
        ELSE OkV(<<>>), LAMBDA c :
    Ok(attach_node(w.ctx,
       NdAssignment(ass.span, ass.text,
                    IF ass.value = "" THEN <<>> ELSE <<ass.value>>, c.v))))))

\* parse_linear, lines 376-517: the first pass makes nodes without joining
parse_linear_scan(ctx0, once) ==
    Bind(next_tk(ctx0), LAMBDA n :
    IF n.tk = <<>> THEN Ok(n.ctx)
    ELSE
    LET tk == n.tk[1]
        ctx == n.ctx
        \* a compound construct: break in single-statement mode
        compound(r) == IF r.st # "ok" THEN r
                       ELSE IF once THEN r ELSE parse_linear_scan(r.ctx, once)
        \* a builder after which the loop goes on
        goes_on(r) == IF r.st # "ok" THEN r ELSE parse_linear_scan(r.ctx, once)
    IN
    CASE tk.class = "If" -> compound(build_if(ctx))
      [] tk.class = "While" -> compound(build_loop(TRUE, ctx))
      [] tk.class = "Until" -> compound(build_loop(FALSE, ctx))
      [] tk.class = "For" -> compound(build_for(ctx))
      [] tk.class = "Match" -> compound(build_match(ctx))
      [] tk.class = "Select" -> compound(build_select(ctx))
      [] tk.class \in {"Ident", "String"} -> compound(build_command(push_front_tk(ctx, tk)))
      [] tk.class \in {"Subshell", "CommandSub"} -> goes_on(build_command(push_front_tk(ctx, tk)))
      [] tk.class = "FuncDef" -> goes_on(build_func_def(push_front_tk(ctx, tk)))
      [] tk.class = "Assignment" -> goes_on(build_assignment(push_front_tk(ctx, tk)))
      [] tk.class = "SOI" -> parse_linear_scan(ctx, once)
      [] tk.class = "EOI" -> Ok(ctx)
      [] tk.class \in {"Do", "Done", "Else", "Elif", "Then", "Fi"} -> closer_outside(tk)
      [] tk.class = "Redirection" -> goes_on(build_redirection(push_front_tk(ctx, tk)))
      [] tk.class = "Cmdsep" ->
            parse_linear_scan(attach_node(ctx, OpNode("Cmdsep", tk.span, {})), once)
      [] tk.class = "LogicAnd" ->
            parse_linear_scan(attach_node(ctx, OpNode("And", tk.span, {"IS_OP"})), once)
      [] tk.class = "LogicOr" ->
            parse_linear_scan(attach_node(ctx, OpNode("Or", tk.span, {"IS_OP"})), once)
      [] tk.class = "Pipe" ->
            parse_linear_scan(attach_node(ctx, OpNode("Pipe", tk.span, {"IS_OP"})), once)
      [] tk.class = "PipeBoth" ->
            parse_linear_scan(attach_node(ctx, OpNode("PipeBoth", tk.span, {"COMBINE_OUT"})), once)
      [] OTHER -> Panic("parse_linear: unimplemented!()"))

parse_linear(ctx, once) ==
    Try(parse_linear_scan(ctx, once), LAMBDA r : join_at_operators(r.ctx))

-----------------------------------------------------------------------------
(* Token queues fed to the parser *)

\* The k-th token of the input occupies one character followed by a blank
SpanAt(k) == Span(2 * (k - 1), 2 * (k - 1) + 1)

\* fragments are written without spans; Place assigns them
Kw(class) == Tk(class, class, SpanNew, NoRedir, "")
Word(text) == Tk("Ident", text, SpanNew, NoRedir, "")
\* a redirection with a file-descriptor target (<&2, >&2, >>&2)
RedirFd(op) == Tk("Redirection", op, SpanNew, Redir(op, <<2>>, <<>>), "")
\* a redirection whose target is the next word (< file, > file)
RedirFile(op) == Tk("Redirection", op, SpanNew, Redir(op, <<>>, <<>>), "")
Assign(key, value) == Tk("Assignment", key, SpanNew, NoRedir, value)

\* the tokens of a fragment appended to a queue, with their spans
Place(queue, frag) ==
    queue \o [i \in 1..Len(frag) |-> [frag[i] EXCEPT !.span = SpanAt(Len(queue) + i)]]

TypeOK ==
    /\ pc \in {"input", "parsed", "expanded"}
    /\ \A i \in 1..Len(tokens) : tokens[i].span = SpanAt(i)

InitQueue(queue) ==
    /\ tokens = queue
    /\ lin = NoResult
    /\ p1 = NoResult
    /\ p2 = NoResult
    /\ p3 = NoResult
    /\ ast = NoResult
    /\ word = <<>>
    /\ expanded = NoResult
    /\ pc = "input"
    /\ event_loop = NoResult
    /\ descent = NoResult
    /\ subject = NoResult

\* the tokenizer delivers one more fragment of the input
Push(frag, max) ==
    /\ pc = "input"
    /\ Len(tokens) + Len(frag) <= max
    /\ tokens' = Place(tokens, frag)
    /\ UNCHANGED <<subject, event_loop, descent, lin, p1, p2, p3, ast, word, expanded, pc>>

\* parse(): get_tree over a fresh DescentContext; lin, p1 and p2 record the
\* node queue of the top-level parse_linear call between its passes
GetTree ==
    /\ pc = "input"
    /\ lin' = parse_linear_scan(DescentContextNew(tokens), FALSE)
    /\ p1' = IF lin'.st = "ok" THEN redir_pass(lin'.ctx.root, <<>>) ELSE NoResult
    /\ p2' = IF p1'.st = "ok" THEN pipeline_pass(p1'.v) ELSE NoResult
    /\ p3' = parse_linear(DescentContextNew(tokens), FALSE)
    /\ ast' = get_tree(DescentContextNew(tokens))
    /\ pc' = "parsed"
    /\ UNCHANGED <<subject, event_loop, descent, tokens, word, expanded>>

-----------------------------------------------------------------------------
(* Specification of the operator-joining passes: simple commands, an     *)
(* assignment, a compound construct, operators and redirections at top level *)

MaxJoinTokens == 5

IfStmt == <<Kw("If"), Word("a"), Kw("Then"), Word("a"), Kw("Fi")>>

JoinFrags ==
    { <<Word("a")>>, <<Kw("Pipe")>>, <<Kw("LogicAnd")>>, <<Kw("Cmdsep")>>,
      <<RedirFd("Output")>>, <<Assign("x", "1")>> }

InitJoin == InitQueue(<<>>)
NextJoin == (\E f \in JoinFrags : Push(f, MaxJoinTokens)) \/ GetTree
SpecJoin == InitJoin /\ [][NextJoin]_vars

-----------------------------------------------------------------------------
(* Specification of pipelines: one statement of commands, subshells,       *)
(* redirections and pipe operators                                          *)

MaxPipeTokens == 6

PipeFrags ==
    { <<Word("a")>>, <<Kw("Subshell")>>, <<Kw("Pipe")>>, <<Kw("PipeBoth")>>,
      <<RedirFd("Output")>> }

InitPipe == InitQueue(<<>>)
NextPipe == (\E f \in PipeFrags : Push(f, MaxPipeTokens)) \/ GetTree
SpecPipe == InitPipe /\ [][NextPipe]_vars

IsPipeTk(tk) == tk.class \in {"Pipe", "PipeBoth"}
PipeIdx == {i \in 1..Len(tokens) : IsPipeTk(tokens[i])}
\* position of the k-th pipe operator of the input
NthPipe(k) == CHOOSE i \in PipeIdx : Cardinality({j \in PipeIdx : j < i}) = k - 1
NumOperands == Cardinality(PipeIdx) + 1
\* the tokens of the k-th operand: those between the (k-1)-th and the k-th pipe
OperandTokens(k) ==
    SubSeq(tokens,
           IF k = 1 THEN 1 ELSE NthPipe(k - 1) + 1,
           IF k = NumOperands THEN Len(tokens) ELSE NthPipe(k) - 1)
\* the input is operand | operand | ..., every operand a command or a subshell
IsPipeStatement ==
    /\ PipeIdx # {}
    /\ \A k \in 1..NumOperands :
          /\ OperandTokens(k) # <<>>
          /\ OperandTokens(k)[1].class \in {"Ident", "Subshell"}
\* the node that the k-th operand makes when it is parsed on its own
OperandAlone(k) == parse_linear(DescentContextNew(OperandTokens(k)), FALSE).ctx.root[1]

\* C1: a top-level statement of n >= 2 valid operands joined by pipe operators
\* parses to exactly one Pipeline node whose commands are the n operands in
\* source order, none of them a PipelineBranch or a Pipeline.
C1_PipelineFlattened ==
    (pc = "parsed" /\ IsPipeStatement) =>
        /\ ast.st = "ok"
        /\ Len(ast.v.deck) = 1
        /\ ast.v.deck[1].nd_type = "Pipeline"
        /\ Len(ast.v.deck[1].commands) = NumOperands
        /\ \A k \in 1..NumOperands :
              LET c == ast.v.deck[1].commands[k] IN
              /\ c.nd_type \notin {"PipelineBranch", "Pipeline"}
              /\ c = [OperandAlone(k) EXCEPT !.flags = @ \cup {"IN_PIPE"}]

\* three operands: the pipeline pass has built a nested PipelineBranch
C1_Witness ==
    /\ pc = "parsed"
    /\ IsPipeStatement
    /\ NumOperands >= 3
    /\ ast.st = "ok"

-----------------------------------------------------------------------------
(* Specification of redirection propagation: one if or loop statement      *)
(* followed by the redirections attached to it                              *)

MaxRedirs == 2

LoopStmt(opener) == <<Kw(opener), Kw("LoopCond"), Kw("Do"), Kw("LoopBody"), Kw("Done")>>

RedirBases ==
    { <<Kw("If"), Word("a"), Kw("Then"), Word("b"), Kw("Fi")>>,
      <<Kw("If"), Word("a"), Kw("Then"), Word("b"), Kw("Else"), Word("c"), Kw("Fi")>>,
      <<Kw("If"), Word("a"), Kw("Then"), Word("b"), Kw("Elif"), Word("c"), Kw("Then"),
        Word("d"), Kw("Else"), Word("e"), Kw("Fi")>>,
      <<Kw("If"), Word("a"), RedirFd("Output"), Kw("Then"), Word("b"), RedirFd("Input"),
        Kw("Fi")>>,
      <<Kw("If"), Word("a"), Kw("Cmdsep"), Word("b"), Kw("Then"), Word("c"), Kw("Cmdsep"),
        Word("d"), Kw("Fi")>>,
      <<Kw("If"), Kw("If"), Word("a"), Kw("Then"), Word("b"), Kw("Fi"), Kw("Then"),
        Word("c"), Kw("Fi")>>,
      <<Kw("If"), Word("a"), Kw("Then")>> \o LoopStmt("While") \o <<Kw("Fi")>>,
      LoopStmt("While"),
      LoopStmt("Until") }

\* the redirections written after the statement
RedirFrags ==
    { <<RedirFd("Input")>>, <<RedirFd("Append")>>, <<RedirFile("Output"), Word("o")>> }

\* number of redirections at the end of the queue
TrailingRedirs(tks) ==
    Cardinality({i \in 1..Len(tks) :
        /\ tks[i].class = "Redirection"
        /\ \A j \in i..Len(tks) :
              \/ tks[j].class = "Redirection"
              \/ j > 1 /\ tks[j - 1].class = "Redirection" /\ tks[j - 1].redir.fd_target = <<>>})

PushRedir(frag) ==
    /\ pc = "input"
    /\ TrailingRedirs(tokens) < MaxRedirs
    /\ tokens' = Place(tokens, frag)
    /\ UNCHANGED <<subject, event_loop, descent, lin, p1, p2, p3, ast, word, expanded, pc>>

InitRedir == \E base \in RedirBases : InitQueue(Place(<<>>, base))
NextRedir == (\E f \in RedirFrags : PushRedir(f)) \/ GetTree
SpecRedir == InitRedir /\ [][NextRedir]_vars

\* the positions of the top-level If and Loop nodes that carry redirections
\* when propagate_redirections is entered
FlowCtlIdx ==
    IF pc = "parsed" /\ p3.st = "ok" /\ ast.st = "ok"
    THEN {i \in 1..Len(p3.ctx.root) :
            /\ p3.ctx.root[i].nd_type \in {"If", "Loop"}
            /\ p3.ctx.root[i].redirs # <<>>}
    ELSE {}
Carried(i) == {p3.ctx.root[i].redirs[k] : k \in 1..Len(p3.ctx.root[i].redirs)}
InRedirs(node, r) == \E k \in 1..Len(node.redirs) : node.redirs[k] = r
\* the condition nodes and the body nodes (else body included) of an If or Loop
CondNodes(n) ==
    IF n.nd_type = "If" THEN {n.cond_blocks[k].condition : k \in 1..Len(n.cond_blocks)}
    ELSE {n.logic.condition}
BodyNodes(n) ==
    IF n.nd_type = "If"
    THEN {n.cond_blocks[k].body : k \in 1..Len(n.cond_blocks)}
         \cup {n.else_block[k] : k \in 1..Len(n.else_block)}
    ELSE {n.logic.body}
\* the nodes where propagation ends: a Root hands its list to each statement of
\* its deck, every other condition or body node keeps it
Holders(n) == IF n.nd_type = "Root" THEN {n.deck[k] : k \in 1..Len(n.deck)} ELSE {n}
IsFlowCtl(n) == n.nd_type \in {"If", "Loop", "For", "Select"}
\* every node below n, n included
RECURSIVE NodesUnder(_)
NodesUnder(n) ==
    {n} \cup
    CASE n.nd_type = "Root" -> UNION {NodesUnder(n.deck[k]) : k \in 1..Len(n.deck)}
      [] n.nd_type \in {"If", "Loop"} ->
            UNION {NodesUnder(m) : m \in CondNodes(n) \cup BodyNodes(n)}
      [] OTHER -> {}

\* C2 as stated: the input redirections of an If or Loop node are in the list of
\* each of its condition nodes and of no body node, the output and append
\* redirections in the list of each body node (else body included) and of no
\* condition node, and the list of the If or Loop node itself is empty.
C2_OnConditionAndBodyNodes ==
    \A i \in FlowCtlIdx : \A r \in Carried(i) :
        LET n == ast.v.deck[i] IN
        /\ n.redirs = <<>>
        /\ \A c \in CondNodes(n) : InRedirs(c, r) <=> is_input_redir(r)
        /\ \A b \in BodyNodes(n) : InRedirs(b, r) <=> ~is_input_redir(r)

\* C2, amended: the list of the If or Loop node ends empty; an input redirection
\* ends in the list of the LoopCond node of a Loop and of every statement of each
\* condition of an If that is not itself a control-flow construct, and in no list
\* below a body; an output or append redirection ends in the list of the
\* LoopBody node and of every such statement of each body and of the else body,
\* and in no list below a condition; the lists of the condition and body Root
\* nodes of an If are empty.
C2_RedirectionsSplit ==
    \A i \in FlowCtlIdx : \A r \in Carried(i) :
        LET n == ast.v.deck[i] IN
        /\ n.redirs = <<>>
        /\ \A c \in CondNodes(n) :
              /\ c.nd_type = "Root" => c.redirs = <<>>
              /\ \A h \in Holders(c) : ~IsFlowCtl(h) => (InRedirs(h, r) <=> is_input_redir(r))
              /\ ~is_input_redir(r) => \A m \in NodesUnder(c) : ~InRedirs(m, r)
        /\ \A b \in BodyNodes(n) :
              /\ b.nd_type = "Root" => b.redirs = <<>>
              /\ \A h \in Holders(b) : ~IsFlowCtl(h) => (InRedirs(h, r) <=> ~is_input_redir(r))
              /\ is_input_redir(r) => \A m \in NodesUnder(b) : ~InRedirs(m, r)

\* an If with an else body that carried an input and an output redirection
C2_Witness ==
    /\ FlowCtlIdx # {}
    /\ \E i \in FlowCtlIdx :
          /\ ast.v.deck[i].nd_type = "If"
          /\ ast.v.deck[i].else_block # <<>>
          /\ \E r1, r2 \in Carried(i) : is_input_redir(r1) /\ ~is_input_redir(r2)

-----------------------------------------------------------------------------
(* Specification of arbitrary token sequences: any class that the parser    *)
(* matches on, in any order                                                  *)

MaxAnyTokens == 3

AnyFrags ==
    { <<Word("a")>>, <<Kw("If")>>, <<Kw("Then")>>, <<Kw("Fi")>>, <<Kw("While")>>,
      <<Kw("LoopCond")>>, <<Kw("Do")>>, <<Kw("LoopBody")>>, <<Kw("Done")>>,
      <<Kw("FuncDef")>>, <<Kw("Background")>>, <<Kw("Pipe")>> }

InitAny == InitQueue(<<>>)
NextAny == (\E f \in AnyFrags : Push(f, MaxAnyTokens)) \/ GetTree
SpecAny == InitAny /\ [][NextAny]_vars

\* C3: for every token sequence the parse ends with a node queue or with a
\* structured error that carries a message and a span, never with an abort.
C3_NeverAborts ==
    pc = "parsed" =>
        \/ p3.st = "ok"
        \/ p3.st = "err" /\ p3.msg # "" /\ p3.span \in [start : Nat, end : Nat]

-----------------------------------------------------------------------------
(* Specification of if statements: the opening if followed by words, the   *)
(* keywords of the construct and nested ifs                                 *)

MaxIfTokens == 5

IfFrags ==
    { <<Word("a")>>, <<Kw("Then")>>, <<Kw("Else")>>, <<Kw("Elif")>>, <<Kw("Fi")>>,
      <<Kw("If")>> }

InitIf == InitQueue(Place(<<>>, <<Kw("If")>>))
NextIf == (\E f \in IfFrags : Push(f, MaxIfTokens)) \/ GetTree
SpecIf == InitIf /\ [][NextIf]_vars

\* number of if constructs open after the first k tokens
IfDepth(k) ==
    Cardinality({i \in 1..k : tokens[i].class = "If"})
        - Cardinality({i \in 1..k : tokens[i].class = "Fi"})
\* the construct opened by the first token is closed nowhere in the queue
IfUnclosed ==
    /\ pc = "parsed"
    /\ tokens[1].class = "If"
    /\ \A k \in 1..Len(tokens) : IfDepth(k) > 0
\* the loop of the outermost build_if reads the queue to its end: no fi for
\* its construct and no error on the way
IfScanExhausted ==
    /\ pc = "parsed"
    /\ tokens[1].class = "If"
    /\ LET r == build_if_scan(next_tk(DescentContextNew(tokens)).ctx, if_scan_init)
       IN r.st = "ok" /\ ~r.closed

\* C4 as stated: an if construct that no fi closes makes the parse fail with a
\* ParsingError whose span starts at the start of the opening if token.
C4_UnclosedIfSpanFromIf ==
    IfUnclosed =>
        /\ p3.st = "err"
        /\ p3.kind = "ParsingError"
        /\ p3.span.start = tokens[1].span.start

\* C4, amended: when the loop of build_if reaches the end of the token queue
\* without meeting the fi of its construct and without an earlier error,
\* build_if fails with the ParsingError of the missing fi, whose span runs from
\* the start of the opening if token to the end of the last token of the queue.
C4_MissingFiSpan ==
    IfScanExhausted =>
        p3 = from_parse("This if statement didn't get an fi",
                        Span(tokens[1].span.start, tokens[Len(tokens)].span.end))

\* an unterminated if that holds a nested, closed if
C4_Witness ==
    /\ IfScanExhausted
    /\ \E i \in 2..Len(tokens) : tokens[i].class = "Fi"
    /\ p3.st = "err"

-----------------------------------------------------------------------------
(* Properties of the joining passes, under SpecJoin *)

\* the node queue that enters join_at_operators at top level
JoinEntered == pc = "parsed" /\ lin.st = "ok"

\* C5: a pipe operator with no node before it makes the parse fail with an
\* error of kind InvalidSyntax that names the missing left operand.
C5_LeadingPipeInvalidSyntax ==
    (/\ JoinEntered
     /\ p1.st = "ok"
     /\ p1.v # <<>>
     /\ p1.v[1].nd_type \in {"Pipe", "PipeBoth"}) =>
        /\ p3.st = "err"
        /\ p3.kind = "InvalidSyntax"
        /\ p3.msg = "This pipeline is missing a left operand"

HasValidOperandFlag(node) == "VALID_OPERAND" \in node.flags

\* C6: in a queue left operator right, the pipeline (or chain) is built if and
\* only if both operands carry VALID_OPERAND; otherwise the pass returns a parse
\* error.
C6_OperandIffFlagged ==
    (/\ JoinEntered
     /\ p1.st = "ok"
     /\ Len(p1.v) = 3
     /\ p1.v[2].nd_type \in {"Pipe", "And"}) =>
        LET flagged == HasValidOperandFlag(p1.v[1]) /\ HasValidOperandFlag(p1.v[3])
            res == IF p1.v[2].nd_type = "Pipe" THEN p2 ELSE p3
        IN /\ res.st \in {"ok", "err"}
           /\ res.st = "ok" <=> flagged

\* positions of the nodes of the entering queue that are no Redirection
NonRedirIdx == {i \in 1..Len(lin.ctx.root) : lin.ctx.root[i].nd_type # "Redirection"}
NthNonRedir(k) ==
    CHOOSE i \in NonRedirIdx : Cardinality({j \in NonRedirIdx : j < i}) = k - 1
\* the Redirection nodes that follow position i up to the next other node
RedirRun(i) ==
    LET q == lin.ctx.root
        n == Cardinality({j \in (i + 1)..Len(q) :
                            \A m \in (i + 1)..j : q[m].nd_type = "Redirection"})
    IN [m \in 1..n |-> q[i + m]]

\* C7: the redirection pass removes every Redirection node from the queue and
\* appends it to the redirection list of the node immediately before it, the
\* other nodes keeping their order; a Redirection with no node before it makes
\* the parse fail with the orphaned redirection error.
C7_RedirectionsAttached ==
    JoinEntered =>
        LET q == lin.ctx.root IN
        IF q # <<>> /\ q[1].nd_type = "Redirection"
        THEN /\ p1 = from_parse("Found this orphaned redirection operator", q[1].span)
             /\ p3 = p1
        ELSE /\ p1.st = "ok"
             /\ Len(p1.v) = Cardinality(NonRedirIdx)
             /\ \A k \in 1..Len(p1.v) :
                   /\ p1.v[k].nd_type # "Redirection"
                   /\ p1.v[k] = [q[NthNonRedir(k)] EXCEPT
                                    !.redirs = @ \o RedirRun(NthNonRedir(k))]

\* two redirections in a row went to the same node
C7_Witness ==
    /\ JoinEntered
    /\ p1.st = "ok"
    /\ \E k \in 1..Len(p1.v) : Len(p1.v[k].redirs) >= 2

(***************************************************************************)
(* Word expansion (expand.rs).  A string is a sequence of one-character    *)
(* strings; the characters are ASCII.                                      *)
(***************************************************************************)
DIGITS == <<"0", "1", "2", "3", "4", "5", "6", "7", "8", "9">>
LOWER ==
    <<"a", "b", "c", "d", "e", "f", "g", "h", "i", "j", "k", "l", "m",
      "n", "o", "p", "q", "r", "s", "t", "u", "v", "w", "x", "y", "z">>
UPPER ==
    <<"A", "B", "C", "D", "E", "F", "G", "H", "I", "J", "K", "L", "M",
      "N", "O", "P", "Q", "R", "S", "T", "U", "V", "W", "X", "Y", "Z">>

IsIn(c, alphabet) == \E i \in 1..Len(alphabet) : alphabet[i] = c
IndexIn(c, alphabet) == CHOOSE i \in 1..Len(alphabet) : alphabet[i] = c

is_ascii_digit(ch) == IsIn(ch, DIGITS)
is_alphanumeric(ch) == IsIn(ch, DIGITS) \/ IsIn(ch, LOWER) \/ IsIn(ch, UPPER)

\* str::contains, str::split_once: the first occurrence of the pattern
Occurrences(s, pat) ==
    {i \in 1..(Len(s) - Len(pat) + 1) : SubSeq(s, i, i + Len(pat) - 1) = pat}
contains(s, pat) == Occurrences(s, pat) # {}
\* Some((left, right)) around the occurrence at i, None for i = 0
SplitAt(s, pat, i) ==
    IF i = 0 THEN [found |-> FALSE, left |-> <<>>, right |-> <<>>]
    ELSE [found |-> TRUE, left |-> SubSeq(s, 1, i - 1),
          right |-> SubSeq(s, i + Len(pat), Len(s))]
split_once(s, pat) ==
    IF contains(s, pat)
    THEN SplitAt(s, pat, CHOOSE i \in Occurrences(s, pat) :
                             \A j \in Occurrences(s, pat) : i <= j)
    ELSE SplitAt(s, pat, 0)
\* split_last is not part of the sources at hand; the specification describes
\* it as the split at the last occurrence of the pattern
split_last(s, pat) ==
    IF contains(s, pat)
    THEN SplitAt(s, pat, CHOOSE i \in Occurrences(s, pat) :
                             \A j \in Occurrences(s, pat) : j <= i)
    ELSE SplitAt(s, pat, 0)

\* str::parse::<i32>: an optional sign and at least one decimal digit, the
\* value within 32 bits.  digits_value is the magnitude, -1 once it is past
\* i32::MAX (the magnitude of i32::MIN among them, which takes a word of
\* eleven characters).
RECURSIVE digits_value(_)
digits_value(s) ==
    IF s = <<>> THEN 0
    ELSE Bind(digits_value(SubSeq(s, 1, Len(s) - 1)), LAMBDA acc :
         IF acc = -1 \/ acc > (2147483647 - (IndexIn(s[Len(s)], DIGITS) - 1)) \div 10
         THEN -1
         ELSE acc * 10 + (IndexIn(s[Len(s)], DIGITS) - 1))
parse_digits(digits, negative) ==
    IF digits = <<>> \/ \E i \in 1..Len(digits) : ~is_ascii_digit(digits[i])
    THEN [st |-> "err", kind |-> "ParseIntError"]
    ELSE Bind(digits_value(digits), LAMBDA magnitude :
         IF magnitude = -1 THEN [st |-> "err", kind |-> "ParseIntError"]
         ELSE OkV(IF negative THEN 0 - magnitude ELSE magnitude))
parse_i32(s) ==
    IF s # <<>> /\ s[1] \in {"+", "-"}
    THEN parse_digits(Tail(s), s[1] = "-")
    ELSE parse_digits(s, FALSE)

\* i32::to_string
RECURSIVE to_string(_)
to_string(n) ==
    IF n < 0 THEN <<"-">> \o to_string(0 - n)
    ELSE IF n < 10 THEN <<DIGITS[n + 1]>>
    ELSE to_string(n \div 10) \o <<DIGITS[(n % 10) + 1]>>

\* for i in left..=right over integers, each pushed as its decimal text
int_range(left, right) ==
    IF left > right THEN <<>>
    ELSE [k \in 1..(right - left + 1) |-> to_string(left + k - 1)]
\* for i in left..=right over characters of one alphabet
char_range(left, right, alphabet) ==
    [k \in 1..(IndexIn(right, alphabet) - IndexIn(left, alphabet) + 1) |->
        <<alphabet[IndexIn(left, alphabet) + k - 1]>>]

num_range(amble) ==
    amble # <<>> /\ is_ascii_digit(amble[1]) /\ is_ascii_digit(amble[Len(amble)])
lower_alpha_range(amble) ==
    /\ amble # <<>>
    /\ IsIn(amble[1], LOWER)
    /\ IsIn(amble[Len(amble)], LOWER)
    /\ IndexIn(amble[1], LOWER) <= IndexIn(amble[Len(amble)], LOWER)
upper_alpha_range(amble) ==
    /\ amble # <<>>
    /\ IsIn(amble[1], UPPER)
    /\ IsIn(amble[Len(amble)], UPPER)
    /\ IndexIn(amble[1], UPPER) <= IndexIn(amble[Len(amble)], UPPER)

\* the numeric enumeration of the range branch of expand_amble, its bounds
\* parsed and unwrapped; result holds the alphabetic enumeration
amble_num(amble, result) ==
    IF ~num_range(amble) THEN OkV(result)
    ELSE Bind(split_once(amble, <<".", ".">>), LAMBDA sp :
         Bind(parse_i32(sp.left), LAMBDA l :
         IF l.st # "ok" THEN Panic("left.parse::<i32>().unwrap()")
         ELSE Bind(parse_i32(sp.right), LAMBDA r :
              IF r.st # "ok" THEN Panic("right.parse::<i32>().unwrap()")
              ELSE OkV(result \o int_range(l.v, r.v)))))

\* the list branch of expand_amble: the character scan with its brace stack
RECURSIVE amble_list(_, _, _, _)
amble_list(chars, cur_string, brace_stack, result) ==
    IF chars = <<>> THEN Append(result, cur_string)
    ELSE IF chars[1] = "{"
    THEN amble_list(Tail(chars), Append(cur_string, "{"), Append(brace_stack, "{"), result)
    ELSE IF chars[1] = "}"
    THEN amble_list(Tail(chars), Append(cur_string, "}"),
                    IF brace_stack = <<>> THEN <<>>
                    ELSE SubSeq(brace_stack, 1, Len(brace_stack) - 1), result)
    ELSE IF chars[1] = ","
    THEN IF brace_stack = <<>>
         THEN amble_list(Tail(chars), <<>>, brace_stack, Append(result, cur_string))
         ELSE amble_list(Tail(chars), Append(cur_string, ","), brace_stack, result)
    ELSE IF chars[1] = "\\"
    THEN IF Len(chars) = 1
         THEN amble_list(<<>>, Append(cur_string, "\\"), brace_stack, result)
         ELSE IF chars[2] \in {"}", "{"}
         THEN amble_list(SubSeq(chars, 3, Len(chars)), Append(cur_string, chars[2]),
                         brace_stack, result)
         ELSE amble_list(SubSeq(chars, 3, Len(chars)), cur_string \o <<"\\", chars[2]>>,
                         brace_stack, result)
    ELSE amble_list(Tail(chars), Append(cur_string, chars[1]), brace_stack, result)

expand_amble(amble) ==
    IF contains(amble, <<".", ".">>) /\ Len(amble) >= 4
    THEN amble_num(amble,
             IF lower_alpha_range(amble)
             THEN char_range(amble[1], amble[Len(amble)], LOWER)
             ELSE IF upper_alpha_range(amble)
             THEN char_range(amble[1], amble[Len(amble)], UPPER)
             ELSE <<>>)
    ELSE OkV(amble_list(amble, <<>>, <<>>, <<>>))

\* for left_part in left_expanded { for right_part in &right_expanded { ... } }
cross_product(left_expanded, right_expanded) ==
    [k \in 1..(Len(left_expanded) * Len(right_expanded)) |->
        left_expanded[((k - 1) \div Len(right_expanded)) + 1]
        \o right_expanded[((k - 1) % Len(right_expanded)) + 1]]

RECURSIVE expand_braces(_, _), expand_each(_, _, _, _)
\* while let Some(string) = expanded.pop_front() { results = expand_braces(...) }
expand_each(preamble, expanded_, postamble, results) ==
    IF expanded_ = <<>> THEN OkV(results)
    ELSE Try(expand_braces(preamble \o expanded_[1] \o postamble, results), LAMBDA r :
         expand_each(preamble, Tail(expanded_), postamble, r.v))
expand_braces(wd, results) ==
    Bind(split_once(wd, <<"{">>), LAMBDA w :
    IF ~w.found THEN OkV(Append(results, wd))
    ELSE Bind(split_last(w.right, <<"}">>), LAMBDA r :
         IF ~r.found THEN OkV(Append(results, wd))
         ELSE Bind(split_once(r.left, <<"}", "{">>), LAMBDA a :
              IF a.found
              THEN Try(expand_braces(<<"{">> \o a.left \o <<"}">>, <<>>), LAMBDA le :
                   Try(expand_braces(<<"{">> \o a.right \o <<"}">>, <<>>), LAMBDA re :
                   OkV(results \o cross_product(le.v, re.v))))
              ELSE Try(expand_amble(r.left), LAMBDA e :
                   expand_each(w.left, e.v, r.right, results)))))

\* helper::has_unescaped
has_unescaped(s, check_char) ==
    \E i \in 1..Len(s) : s[i] = check_char /\ (i = 1 \/ s[i - 1] # "\\")

\* the variable table is not part of the sources at hand; the specification
\* describes the scalar lookup, of which expand_var takes the default (the
\* empty string) for an unset name.  X is set to hello, Y to the text $X, W
\* to the text $W.
get_var(var_name) ==
    IF var_name = <<"X">> THEN [some |-> TRUE, v |-> <<"h", "e", "l", "l", "o">>]
    ELSE IF var_name = <<"Y">> THEN [some |-> TRUE, v |-> <<"$", "X">>]
    ELSE IF var_name = <<"W">> THEN [some |-> TRUE, v |-> <<"$", "W">>]
    ELSE [some |-> FALSE, v |-> <<>>]

\* Regex (\w+)\[(\d+)\] finds a match somewhere in the name
index_regex_is_match(var_name) ==
    \E i \in 2..Len(var_name) : \E j \in (i + 2)..Len(var_name) :
        /\ (is_alphanumeric(var_name[i - 1]) \/ var_name[i - 1] = "_")
        /\ var_name[i] = "["
        /\ var_name[j] = "]"
        /\ \A k \in (i + 1)..(j - 1) : is_ascii_digit(var_name[k])

\* the scan for the first dollar sign, a backslash taking the next character
\* with it
RECURSIVE var_scan(_, _)
var_scan(chars, left) ==
    IF chars = <<>> THEN [left |-> left, right |-> <<>>]
    ELSE IF chars[1] = "\\"
    THEN IF Len(chars) >= 2
         THEN var_scan(SubSeq(chars, 3, Len(chars)), left \o <<"\\", chars[2]>>)
         ELSE [left |-> Append(left, "\\"), right |-> <<>>]
    ELSE IF chars[1] = "$"
    THEN [left |-> left, right |-> Tail(chars)]
    ELSE var_scan(Tail(chars), Append(left, chars[1]))

\* the scan for the name of the variable
RECURSIVE name_scan(_, _)
name_scan(right_chars, var_name) ==
    IF right_chars = <<>> THEN [var_name |-> var_name, right |-> <<>>]
    ELSE IF is_alphanumeric(right_chars[1]) \/ right_chars[1] \in {"_", "[", "]"}
    THEN name_scan(Tail(right_chars), Append(var_name, right_chars[1]))
    ELSE IF right_chars[1] \in {"-", "*", "?", "$", "@", "#"}
    THEN [var_name |-> Append(var_name, right_chars[1]), right |-> Tail(right_chars)]
    ELSE IF right_chars[1] = "{"
    THEN name_scan(Tail(right_chars), var_name)
    ELSE IF right_chars[1] = "}"
    THEN [var_name |-> var_name, right |-> Tail(right_chars)]
    ELSE [var_name |-> var_name, right |-> right_chars]

\* no array is set: index_arr(..).unwrap() finds none
var_value(var_name) ==
    IF index_regex_is_match(var_name)
    THEN Panic("index_arr(var_name, index).unwrap()")
    ELSE OkV(get_var(var_name).v)

\* the loop of expand_var.  It depends on the string alone, so a string that
\* comes back is a loop that never ends; passed holds the strings of the
\* earlier passes.
RECURSIVE expand_var_loop(_, _)
expand_var_loop(string, passed) ==
    IF string \in passed THEN [st |-> "diverges"]
    ELSE Bind(var_scan(string, <<>>), LAMBDA sc :
         IF sc.right = <<>> THEN OkV(string)
         ELSE Bind(name_scan(sc.right, <<>>), LAMBDA nm :
              Try(var_value(nm.var_name), LAMBDA value :
              IF has_unescaped(sc.left \o value.v \o nm.right, "$")
              THEN expand_var_loop(sc.left \o value.v \o nm.right, passed \cup {string})
              ELSE OkV(sc.left \o value.v \o nm.right))))
expand_var(string) == expand_var_loop(string, {})

(***************************************************************************)
(* Words handed to the expansion engine                                    *)
(***************************************************************************)
InitWord(base) ==
    /\ tokens = <<>>
    /\ lin = NoResult
    /\ p1 = NoResult
    /\ p2 = NoResult
    /\ p3 = NoResult
    /\ ast = NoResult
    /\ word = base
    /\ expanded = NoResult
    /\ pc = "input"
    /\ event_loop = NoResult
    /\ descent = NoResult
    /\ subject = NoResult

\* the text of the word grows by one fragment; a word begins with one of the
\* bases and has at most max characters after it
Type(frag, bases, max) ==
    /\ pc = "input"
    /\ \E base \in bases :
           /\ Len(base) <= Len(word \o frag)
           /\ SubSeq(word \o frag, 1, Len(base)) = base
           /\ Len(word \o frag) <= Len(base) + max
    /\ word' = word \o frag
    /\ UNCHANGED <<subject, event_loop, descent, tokens, lin, p1, p2, p3, ast, expanded, pc>>

ExpandBraces ==
    /\ pc = "input"
    /\ expanded' = expand_braces(word, <<>>)
    /\ pc' = "expanded"
    /\ UNCHANGED <<subject, event_loop, descent, tokens, lin, p1, p2, p3, ast, word>>

ExpandAmble ==
    /\ pc = "input"
    /\ expanded' = expand_amble(word)
    /\ pc' = "expanded"
    /\ UNCHANGED <<subject, event_loop, descent, tokens, lin, p1, p2, p3, ast, word>>

ExpandVar ==
    /\ pc = "input"
    /\ expanded' = expand_var(word)
    /\ pc' = "expanded"
    /\ UNCHANGED <<subject, event_loop, descent, tokens, lin, p1, p2, p3, ast, word>>

\* brace expansion of a whole word
MaxBraceChars == 6

BraceBases == {<<>>, <<"{", "a", ",", "b", "}">>}
BraceFrags == {<<"{">>, <<"}">>, <<",">>, <<".", ".">>, <<"a">>, <<"1">>, <<"3">>}

InitBrace == \E base \in BraceBases : InitWord(base)
NextBrace ==
    \/ \E frag \in BraceFrags : Type(frag, BraceBases, MaxBraceChars)
    \/ ExpandBraces
SpecBrace == InitBrace /\ [][NextBrace]_vars

\* expansion of the interior of a brace group
MaxAmbleChars == 5

AmbleFrags == {<<",">>, <<".", ".">>, <<"a">>, <<"c">>, <<"1">>, <<"3">>}

InitAmble == InitWord(<<>>)
NextAmble ==
    \/ \E frag \in AmbleFrags : Type(frag, {<<>>}, MaxAmbleChars)
    \/ ExpandAmble
SpecAmble == InitAmble /\ [][NextAmble]_vars

\* variable expansion of a word
MaxVarChars == 5

VarFrags == {<<"$">>, <<"\\">>, <<"X">>, <<"Y">>, <<"W">>, <<"U">>, <<"{">>, <<"}">>}

InitVar == InitWord(<<>>)
NextVar ==
    \/ \E frag \in VarFrags : Type(frag, {<<>>}, MaxVarChars)
    \/ ExpandVar
SpecVar == InitVar /\ [][NextVar]_vars

(***************************************************************************)
(* Properties of brace expansion, under SpecBrace and SpecAmble            *)
(***************************************************************************)
\* the text between the first and the last character of a word
Interior(wd) == SubSeq(wd, 2, Len(wd) - 1)

\* the alternatives of a text without braces and backslashes: its pieces
\* between the commas
RECURSIVE Alternatives(_, _)
Alternatives(s, cur) ==
    IF s = <<>> THEN <<cur>>
    ELSE IF s[1] = "," THEN <<cur>> \o Alternatives(Tail(s), <<>>)
    ELSE Alternatives(Tail(s), Append(cur, s[1]))

\* one brace group around two or more alternatives free of braces
IsAlternativeList(wd) ==
    /\ Len(wd) >= 2
    /\ wd[1] = "{"
    /\ wd[Len(wd)] = "}"
    /\ \A i \in 2..(Len(wd) - 1) : wd[i] \notin {"{", "}", "\\"}
    /\ \E i \in 2..(Len(wd) - 1) : wd[i] = ","

\* C8: brace expansion has the stated cardinality and order.  A group of n
\* comma-separated alternatives expands to exactly these n words in their
\* order, {1..3} expands to 1, 2, 3, two adjacent groups expand to their
\* cross product, the left group varying slowest, and a word with an opening
\* brace and no closing brace expands to itself.
C8_BraceCardinalityAndOrder ==
    pc = "expanded" =>
        /\ IsAlternativeList(word) =>
               expanded = OkV(Alternatives(Interior(word), <<>>))
        /\ word = <<"{", "1", ".", ".", "3", "}">> =>
               expanded = OkV(<< <<"1">>, <<"2">>, <<"3">> >>)
        /\ word = <<"{", "a", ",", "b", "}", "{", "1", ",", "3", "}">> =>
               expanded = OkV(<< <<"a", "1">>, <<"a", "3">>, <<"b", "1">>, <<"b", "3">> >>)
        /\ (contains(word, <<"{">>) /\ ~contains(word, <<"}">>)) =>
               expanded = OkV(<<word>>)

\* N..M with N and M decimal numbers
IsNumericRange(s) ==
    \E i \in 2..(Len(s) - 2) :
        /\ s[i] = "." /\ s[i + 1] = "."
        /\ \A k \in 1..(i - 1) : is_ascii_digit(s[k])
        /\ \A k \in (i + 2)..Len(s) : is_ascii_digit(s[k])
\* x..y with x and y single letters of one case, ascending
IsAlphabeticRange(s) ==
    /\ Len(s) = 4
    /\ s[2] = "." /\ s[3] = "."
    /\ \/ /\ IsIn(s[1], LOWER) /\ IsIn(s[4], LOWER)
          /\ IndexIn(s[1], LOWER) <= IndexIn(s[4], LOWER)
       \/ /\ IsIn(s[1], UPPER) /\ IsIn(s[4], UPPER)
          /\ IndexIn(s[1], UPPER) <= IndexIn(s[4], UPPER)
IsRange(s) ==
    ~contains(s, <<",">>) /\ (IsNumericRange(s) \/ IsAlphabeticRange(s))

\* C9: the interior of a brace group is enumerated as a range only when it is
\* a numeric range or a single-character ascending alphabetic range without a
\* comma; every other interior is split at its commas, and no interior yields
\* zero words.
C9_RangeOnlyWithoutComma ==
    pc = "expanded" =>
        /\ expanded.st = "ok"
        /\ Len(expanded.v) >= 1
        /\ ~IsRange(word) => expanded.v = Alternatives(word, <<>>)

(***************************************************************************)
(* Properties of variable expansion, under SpecVar                         *)
(***************************************************************************)
\* the number of backslashes right before position i
RECURSIVE BackslashesBefore(_, _)
BackslashesBefore(s, i) ==
    IF i > 1 /\ s[i - 1] = "\\" THEN 1 + BackslashesBefore(s, i - 1) ELSE 0

\* position i holds a dollar sign that no backslash escapes and that is
\* followed by the name of a variable
ReferenceAt(s, i) ==
    /\ s[i] = "$"
    /\ BackslashesBefore(s, i) % 2 = 0
    /\ i < Len(s)
    /\ (is_alphanumeric(s[i + 1]) \/ s[i + 1] = "_")

\* C10: variable expansion resolves chains of references to a fixed point.
\* With X set to hello and Y to the text $X, $Y expands to hello; the result
\* of expand_var holds no unescaped dollar sign that names a variable; an
\* unset variable contributes the empty string.
C10_ResolvedToFixedPoint ==
    (pc = "expanded" /\ expanded.st = "ok") =>
        /\ word = <<"$", "Y">> => expanded.v = <<"h", "e", "l", "l", "o">>
        /\ word = <<"$", "U">> => expanded.v = <<>>
        /\ \A i \in 1..Len(expanded.v) : ~ReferenceAt(expanded.v, i)

(***************************************************************************)
(* expand_token (expand.rs).  A token at the expansion engine carries its  *)
(* class, its text and its flags; every rule copies the span of the token  *)
(* under expansion, so the span is left out.                               *)
(***************************************************************************)
ETk(tk_type, text, flags) == [tk_type |-> tk_type, text |-> text, flags |-> flags]

check_globs(string) == has_unescaped(string, "?") \/ has_unescaped(string, "*")

\* The pattern of REGEX["brace_expansion"] is not part of the sources at
\* hand; the specification describes it as a brace group with a non-empty
\* interior somewhere in the text.
is_brace_expansion(text) ==
    \E i \in 1..Len(text) : \E j \in (i + 2)..Len(text) :
        text[i] = "{" /\ text[j] = "}"

\* has_unescaped("~") && (starts_with('~') || has_unescaped("~/"))
check_home_expansion(text) ==
    /\ has_unescaped(text, "~")
    /\ \/ text[1] = "~"
       \/ \E i \in 2..(Len(text) - 1) :
              text[i] = "~" /\ text[i + 1] = "/" /\ text[i - 1] # "\\"

\* text.replace("~", &home); the value of HOME is not part of the sources at
\* hand and is taken to be /h
RECURSIVE replace_home(_)
replace_home(text) ==
    IF text = <<>> THEN <<>>
    ELSE (IF text[1] = "~" THEN <<"/", "h">> ELSE <<text[1]>>) \o replace_home(Tail(text))

\* glob(pattern): the paths of the working directory that match, in
\* alphabetical order.  The directory holds the files a and ab; a star matches
\* any run of characters, a question mark any one character.
RECURSIVE glob_match(_, _)
glob_match(pattern, path) ==
    IF pattern = <<>> THEN path = <<>>
    ELSE IF pattern[1] = "*"
    THEN glob_match(Tail(pattern), path)
         \/ (path # <<>> /\ glob_match(pattern, Tail(path)))
    ELSE IF path = <<>> THEN FALSE
    ELSE (pattern[1] = "?" \/ pattern[1] = path[1])
         /\ glob_match(Tail(pattern), Tail(path))
glob(pattern) ==
    SelectSeq(<< <<"a">>, <<"a", "b">> >>, LAMBDA path : glob_match(pattern, path))

\* consume_escapes is not part of the sources at hand; the specification
\* describes it: an escaped character becomes literal and the escape marker
\* is removed
RECURSIVE consume_escapes(_)
consume_escapes(text) ==
    IF text = <<>> THEN <<>>
    ELSE IF text[1] = "\\"
    THEN (IF Len(text) >= 2 THEN <<text[2]>> ELSE <<>>)
         \o consume_escapes(SubSeq(text, 3, Len(text)))
    ELSE <<text[1]>> \o consume_escapes(Tail(text))

\* split_outside_quotes is not part of the sources at hand; the specification
\* describes it: the fields between unescaped whitespace, quote state
\* respected.  The texts of the specifications hold no quote character.
RECURSIVE split_outside_quotes(_, _)
split_outside_quotes(text, cur) ==
    IF text = <<>> THEN (IF cur = <<>> THEN <<>> ELSE <<cur>>)
    ELSE IF text[1] = "\\" /\ Len(text) >= 2
    THEN split_outside_quotes(SubSeq(text, 3, Len(text)), cur \o <<"\\", text[2]>>)
    ELSE IF text[1] = " "
    THEN (IF cur = <<>> THEN <<>> ELSE <<cur>>) \o split_outside_quotes(Tail(text), <<>>)
    ELSE split_outside_quotes(Tail(text), Append(cur, text[1]))

\* split_tokens: every field of every token becomes a String token
RECURSIVE split_tokens(_)
split_tokens(tk_buffer) ==
    IF tk_buffer = <<>> THEN <<>>
    ELSE Bind(split_outside_quotes(tk_buffer[1].text, <<>>), LAMBDA split :
         [k \in 1..Len(split) |-> ETk("String", split[k], tk_buffer[1].flags)])
         \o split_tokens(Tail(tk_buffer))

\* expanded_token = expand_var(expanded_token)? for every word of a brace
\* expansion, each word then an Expanded token with the flags of the token
RECURSIVE expand_var_each(_, _, _)
expand_var_each(strings, flags, acc) ==
    IF strings = <<>> THEN OkV(acc)
    ELSE Try(expand_var(strings[1]), LAMBDA v :
         expand_var_each(Tail(strings), flags, Append(acc, ETk("Expanded", v.v, flags))))

\* The alias table of the shell environment is not part of the sources at
\* hand; the specification describes it: a name is looked up and the text of
\* its alias, if it has one, is returned.  One alias is set: l for  a b .
get_alias(name) == IF name = <<"l">> THEN << <<"a", " ", "b">> >> ELSE <<>>

\* str::split(' '): the fields between single spaces, empty fields included
RECURSIVE split_spaces(_, _)
split_spaces(text, cur) ==
    IF text = <<>> THEN <<cur>>
    ELSE IF text[1] = " " THEN <<cur>> \o split_spaces(Tail(text), <<>>)
    ELSE split_spaces(Tail(text), Append(cur, text[1]))

\* The loop of expand_token over its working buffer.  orig is the token as it
\* was popped, token the same after the replacement of the tilde, rest the
\* working buffer behind it.  Two things are outside the sources at hand and
\* end the loop with an open result: the subprocess of a command substitution and
\* the positional parameters of $@.  A token that is pushed back to the front
\* as it was popped is popped again in the same state: the loop never ends.
RECURSIVE expand_token_loop(_, _, _), expand_token_step(_, _, _, _, _)
expand_token_loop(working_buffer, product_buffer, expand_glob) ==
    IF working_buffer = <<>> THEN OkV(product_buffer)
    ELSE IF working_buffer[1].tk_type = "CommandSub" THEN [st |-> "open"]
    ELSE expand_token_step(
             working_buffer[1],
             IF check_home_expansion(working_buffer[1].text)
             THEN [working_buffer[1] EXCEPT !.text = replace_home(working_buffer[1].text)]
             ELSE working_buffer[1],
             Tail(working_buffer), product_buffer, expand_glob)
expand_token_step(orig, token, rest, product_buffer, expand_glob) ==
    IF ~(expand_glob /\ check_globs(orig.text)) /\ ~is_brace_expansion(orig.text)
    THEN IF has_unescaped(token.text, "$") /\ token.flags \cap {"FROM_VAR", "SNG_QUOTED"} = {}
              /\ \E i \in 1..(Len(token.text) - 1) :
                     /\ token.text[i] = "$" /\ token.text[i + 1] = "@"
                     /\ (i = 1 \/ token.text[i - 1] # "\\")
         THEN [st |-> "open"]
         ELSE Try(IF has_unescaped(token.text, "$")
                     /\ token.flags \cap {"FROM_VAR", "SNG_QUOTED"} = {}
                  THEN expand_var(token.text) ELSE OkV(token.text), LAMBDA v :
              IF is_brace_expansion(v.v) \/ has_unescaped(v.v, "$")
              THEN IF [token EXCEPT !.text = v.v] = orig THEN [st |-> "diverges"]
                   ELSE expand_token_loop(<<[token EXCEPT !.text = v.v]>> \o rest,
                                          product_buffer, expand_glob)
              ELSE expand_token_loop(rest,
                       Append(product_buffer,
                              [token EXCEPT !.text =
                                  IF check_home_expansion(orig.text)
                                  THEN replace_home(v.v) ELSE v.v]),
                       expand_glob))
    ELSE IF is_brace_expansion(orig.text) /\ has_unescaped(token.text, "{")
            /\ token.tk_type # "String"
    THEN Try(expand_braces(token.text, <<>>), LAMBDA e :
         Try(expand_var_each(e.v, token.flags, <<>>), LAMBDA tks :
         expand_token_loop(rest \o tks.v, product_buffer, expand_glob)))
    ELSE IF expand_glob /\ check_globs(orig.text)
    THEN expand_token_loop(
             rest \o [k \in 1..Len(glob(token.text)) |->
                         ETk("Expanded", glob(token.text)[k], token.flags)],
             product_buffer, expand_glob)
    ELSE IF get_alias(token.text) # <<>>
    THEN expand_token_loop(
             rest \o [k \in 1..Len(split_spaces(get_alias(token.text)[1], <<>>)) |->
                         ETk("Expanded", split_spaces(get_alias(token.text)[1], <<>>)[k],
                             token.flags)],
             product_buffer, expand_glob)
    ELSE expand_token_loop(rest,
             Append(product_buffer,
                    [token EXCEPT !.text =
                        IF check_home_expansion(orig.text)
                        THEN replace_home(token.text) ELSE token.text]),
             expand_glob)

\* expand_token: the loop, then the escapes of every product token consumed
\* and, for a token that is no String, the fields split
expand_token(token, expand_glob) ==
    Try(expand_token_loop(<<token>>, <<>>, expand_glob), LAMBDA product :
    Bind([k \in 1..Len(product.v) |->
             [product.v[k] EXCEPT !.text = consume_escapes(product.v[k].text)]],
         LAMBDA product_buffer :
    OkV(IF token.tk_type # "String" THEN split_tokens(product_buffer)
        ELSE product_buffer)))

\* one token is expanded: its text is the word, its class and the glob switch
\* are those of the caller; tokens keeps the arguments of the call
ExpandToken(tk_type, expand_glob) ==
    /\ pc = "input"
    /\ tokens' = <<[token |-> ETk(tk_type, word, {}), expand_glob |-> expand_glob]>>
    /\ expanded' = expand_token(ETk(tk_type, word, {}), expand_glob)
    /\ pc' = "expanded"
    /\ UNCHANGED <<subject, event_loop, descent, lin, p1, p2, p3, ast, word>>

\* expansion of a token
MaxTokenChars == 4

TokenFrags ==
    {<<"a">>, <<"$">>, <<"X">>, <<"\\">>, <<" ">>, <<"*">>, <<"{">>, <<"}">>, <<",">>, <<"~">>}

InitToken == InitWord(<<>>)
NextToken ==
    \/ \E frag \in TokenFrags : Type(frag, {<<>>}, MaxTokenChars)
    \/ \E tk_type \in {"Ident", "String"} : \E expand_glob \in BOOLEAN :
           ExpandToken(tk_type, expand_glob)
SpecToken == InitToken /\ [][NextToken]_vars

(***************************************************************************)
(* Properties of expand_token, under SpecToken                             *)
(***************************************************************************)
\* a text the tokenizer can deliver that is fully resolved: not empty, no
\* dollar sign, no glob metacharacter, no brace, no tilde, and no whitespace
\* but escaped whitespace
IsResolvedText(text) ==
    /\ text # <<>>
    /\ \A i \in 1..Len(text) :
           /\ text[i] \notin {"$", "*", "?", "{", "}", "~"}
           /\ text[i] = " " => BackslashesBefore(text, i) % 2 = 1

\* C11: expansion is the identity on fully resolved text.  A token whose text
\* holds no dollar sign, no glob metacharacter, no brace group and no tilde
\* (and is no alias) expands to exactly one token with the same text, escape
\* characters removed, and expanding that token again changes nothing.
C11_IdentityOnResolvedText ==
    (pc = "expanded" /\ IsResolvedText(word)) =>
        /\ expanded.st = "ok"
        /\ Len(expanded.v) = 1
        /\ expanded.v[1].text = consume_escapes(word)
        /\ expand_token(expanded.v[1], tokens[1].expand_glob) = expanded

\* C12: a double-quoted (String) token gets variable expansion and neither
\* field splitting nor glob expansion, whatever its text holds: it expands to
\* exactly one token whose text (a tilde to replace apart) is the variable
\* expansion of its text, escape characters removed.
C12_StringOnlyVariables ==
    (/\ pc = "expanded"
     /\ tokens[1].token.tk_type = "String"
     /\ expanded.st = "ok"
     /\ expand_var(word).st = "ok") =>
        /\ Len(expanded.v) = 1
        /\ ~check_home_expansion(word) =>
               expanded.v[1].text = consume_escapes(expand_var(word).v)

-----------------------------------------------------------------------------
(* Specification of spans: statements of every kind that carries a computed *)
(* span, the match statement among them                                     *)

MaxSpanTokens == 4

SpanFrags ==
    { <<Word("a")>>, <<Kw("Match")>>, <<Kw("In")>>, <<Kw("MatchArm")>>, <<Kw("Done")>>,
      <<Kw("If")>>, <<Kw("Then")>>, <<Kw("Fi")>>, <<Kw("Pipe")>>, <<Kw("LogicAnd")>>,
      <<RedirFd("Output")>> }

SpecSpan ==
    InitQueue(<<>>) /\ [][(\E f \in SpanFrags : Push(f, MaxSpanTokens)) \/ GetTree]_vars

\* every node of the tree below n, n included
RECURSIVE AllNodes(_)
AllNodes(n) ==
    {n} \cup
    CASE n.nd_type = "Root" -> UNION {AllNodes(n.deck[k]) : k \in 1..Len(n.deck)}
      [] n.nd_type \in {"If", "Loop"} ->
            UNION {AllNodes(m) : m \in CondNodes(n) \cup BodyNodes(n)}
      [] n.nd_type = "For" -> AllNodes(n.loop_body)
      [] n.nd_type = "Select" -> AllNodes(n.body)
      [] n.nd_type \in {"Pipeline", "Chain"} ->
            UNION {AllNodes(n.commands[k]) : k \in 1..Len(n.commands)}
      [] n.nd_type = "PipelineBranch" -> AllNodes(n.left) \cup AllNodes(n.right)
      [] n.nd_type = "Assignment" -> UNION {AllNodes(n.cmd[k]) : k \in 1..Len(n.cmd)}
      [] OTHER -> {}

\* C14: the tokens of the queue have spans with start <= end, in the order of
\* their positions; then every node of the tree of a successful parse and the
\* span of every parse error has start <= end.
C14_SpansOrdered ==
    pc = "parsed" =>
        /\ ast.st = "ok" => \A n \in AllNodes(ast.v) : n.span.start <= n.span.end
        /\ ast.st = "err" => ast.span.start <= ast.span.end

-----------------------------------------------------------------------------
(* The event loop (event.rs): the kinds of ShellError, the rendering of an
   error with its source context, and event_listen's handlers.  The channel
   is a queue of events; an event is a record with the fields ev, code, err. *)

ErrorKinds ==
    {"CommandNotFound", "InvalidSyntax", "ParsingError", "ExecFailed", "IoError", "InternalError"}

ShellErr(kind, span) == [st |-> "err", kind |-> kind, msg |-> "error", span |-> span]

is_fatal(err) ==
    CASE err.kind = "IoError" -> TRUE
      [] err.kind = "CommandNotFound" -> FALSE
      [] err.kind = "ExecFailed" -> FALSE
      [] err.kind = "ParsingError" -> FALSE
      [] err.kind = "InvalidSyntax" -> FALSE
      [] err.kind = "InternalError" -> FALSE

\* what format_error_context can do with a span: span.end - span.start is a
\* subtraction of unsigned integers, which aborts the process in a build with
\* overflow checks and wraps around in a build without them when the span ends
\* before it starts; after a wrap the pointer is cut to the width of the window
format_error_context(span) ==
    IF span.end < span.start THEN {"panic", "printed"} ELSE {"printed"}

\* Display for ShellErrorFull: every kind writes its headline and then the context
fmt(err) == format_error_context(err.span)

ShellEvent(ev, code, err) == [ev |-> ev, code |-> code, err |-> err]

EventLoopNew == [receiver |-> <<ShellEvent("Prompt", 0, NoResult)>>, code |-> 0,
                 status |-> "listening", last |-> ShellEvent("None", 0, NoResult), report |-> "none"]

\* the loop takes the next event off its channel
Recv(ev) ==
    /\ event_loop.status = "listening"
    /\ event_loop.receiver # <<>>
    /\ Head(event_loop.receiver).ev = ev

Handled(sent, code, status, report) ==
    [receiver |-> Tail(event_loop.receiver) \o sent, code |-> code,
     status |-> status, last |-> Head(event_loop.receiver), report |-> report]

MaxEvents == 3

\* an error of the parser that reaches the loop: the one of build_match for
\* a match without its block, and one of parse_linear for a stray closer
ParseErrors ==
    {get_tree(DescentContextNew(Place(<<>>, <<Kw("Match"), Word("a")>>))),
     get_tree(DescentContextNew(Place(<<>>, <<Kw("Done")>>)))}

\* the errors of the other layers, each with the span of a token
LayerErrors == {ShellErr(kind, SpanAt(1)) : kind \in ErrorKinds}

\* the prompt reads a line and sends what became of it: a tree, an error of
\* the parser, or a request to exit
HandlePrompt ==
    /\ Recv("Prompt")
    /\ \E sent \in {<<>>, <<ShellEvent("NewAST", 0, NoResult)>>, <<ShellEvent("Exit", 1, NoResult)>>}
                   \cup {<<ShellEvent("CatchError", 0, e)>> : e \in ParseErrors \cup LayerErrors} :
           event_loop' = Handled(sent, event_loop.code, "listening", "none")
    /\ UNCHANGED <<subject, descent, tokens, lin, p1, p2, p3, ast, word, expanded, pc>>

HandleExit ==
    /\ Recv("Exit")
    /\ event_loop' = Handled(<<>>, Head(event_loop.receiver).code, "listening", "none")
    /\ UNCHANGED <<subject, descent, tokens, lin, p1, p2, p3, ast, word, expanded, pc>>

\* the handler of NewAST with the request for the next prompt sent before
\* the error of the walk
HandleNewAST_prompt_first ==
    /\ Recv("NewAST")
    /\ \E walk \in {<<>>} \cup {<<ShellEvent("CatchError", 0, e)>> : e \in LayerErrors} :
       \E is_interactive \in BOOLEAN :
           event_loop' = Handled((IF is_interactive THEN <<ShellEvent("Prompt", 0, NoResult)>> ELSE <<>>) \o walk,
                                 event_loop.code, "listening", "none")
    /\ UNCHANGED <<subject, descent, tokens, lin, p1, p2, p3, ast, word, expanded, pc>>

\* the walk of the tree ends well or with an error, which is sent to the loop
\* itself; an interactive shell then asks for the next prompt
HandleNewAST ==
    /\ Recv("NewAST")
    /\ \E walk \in {<<>>} \cup {<<ShellEvent("CatchError", 0, e)>> : e \in LayerErrors} :
       \E is_interactive \in BOOLEAN :
           event_loop' = Handled(walk \o (IF is_interactive THEN <<ShellEvent("Prompt", 0, NoResult)>> ELSE <<>>),
                                 event_loop.code, "listening", "none")
    /\ UNCHANGED <<subject, descent, tokens, lin, p1, p2, p3, ast, word, expanded, pc>>

HandleSubprocessExited ==
    /\ Recv("SubprocessExited")
    /\ event_loop' = Handled(<<>>, event_loop.code, "listening", "none")
    /\ UNCHANGED <<subject, descent, tokens, lin, p1, p2, p3, ast, word, expanded, pc>>

HandleSignal ==
    /\ Recv("Signal")
    /\ event_loop' = Handled(<<>>, event_loop.code, "listening", "none")
    /\ UNCHANGED <<subject, descent, tokens, lin, p1, p2, p3, ast, word, expanded, pc>>

\* a fatal error is logged and the process exits with 1; any other error is
\* printed; both render the error, and a rendering that aborts ends the process
HandleCatchError ==
    /\ Recv("CatchError")
    /\ \E report \in fmt(Head(event_loop.receiver).err) :
           event_loop' =
               IF report = "panic"
               THEN Handled(<<>>, 101, "panicked", report)
               ELSE IF is_fatal(Head(event_loop.receiver).err)
                    THEN Handled(<<>>, 1, "exited", report)
                    ELSE Handled(<<>>, event_loop.code, "listening", report)
    /\ UNCHANGED <<subject, descent, tokens, lin, p1, p2, p3, ast, word, expanded, pc>>

\* the signal listener and the subprocesses send their events from outside;
\* they leave room for the one event by which a handler can make the channel
\* grow, so that the channel never holds more than MaxEvents events
Send(event) ==
    /\ event_loop.status = "listening"
    /\ Len(event_loop.receiver) + 1 < MaxEvents
    /\ event_loop' = [event_loop EXCEPT !.receiver = Append(@, event)]
    /\ UNCHANGED <<subject, descent, tokens, lin, p1, p2, p3, ast, word, expanded, pc>>

SpecEvent ==
    /\ tokens = <<>> /\ word = <<>> /\ pc = "input"
    /\ lin = NoResult /\ p1 = NoResult /\ p2 = NoResult /\ p3 = NoResult
    /\ ast = NoResult /\ expanded = NoResult
    /\ event_loop = EventLoopNew /\ descent = NoResult /\ subject = NoResult
    /\ [][\/ HandlePrompt \/ HandleExit \/ HandleNewAST \/ HandleSubprocessExited
          \/ HandleSignal \/ HandleCatchError
          \/ \E ev \in {"Signal", "SubprocessExited"} : Send(ShellEvent(ev, 0, NoResult))]_vars

\* C13: exactly one kind of error is fatal, IoError; when the event loop has
\* handled a CatchError event the process has ended if and only if the error
\* was fatal, and an error that is not fatal was reported and the loop is
\* still taking events.
C13_OnlyIoErrorEndsProcess ==
    /\ \A kind \in ErrorKinds : is_fatal(ShellErr(kind, SpanAt(1))) <=> kind = "IoError"
    /\ event_loop.last.ev = "CatchError" =>
           /\ event_loop.status # "listening" <=> is_fatal(event_loop.last.err)
           /\ ~is_fatal(event_loop.last.err) =>
                  event_loop.report = "printed" /\ event_loop.status = "listening"

\* the same for the errors whose span does not end before it starts
C13_HoldsForOrderedSpans ==
    event_loop.last.ev = "CatchError" /\ event_loop.last.err.span.start <= event_loop.last.err.span.end =>
        /\ event_loop.status # "listening" <=> is_fatal(event_loop.last.err)
        /\ ~is_fatal(event_loop.last.err) =>
               event_loop.report = "printed" /\ event_loop.status = "listening"

-----------------------------------------------------------------------------
(* The operations of DescentContext on its queue of tokens.  descent holds
   the context, the context before the last operation, the name of that
   operation, what it returned and the token consumed last. *)

MaxCtxTokens == 4

Descent(ctx, prev, op, ret, consumed) ==
    [ctx |-> ctx, prev |-> prev, op |-> op, ret |-> ret, consumed |-> consumed]

NextTk ==
    /\ descent' = Descent(next_tk(descent.ctx).ctx, descent.ctx, "next_tk", next_tk(descent.ctx).tk,
                          IF next_tk(descent.ctx).tk = <<>> THEN descent.consumed
                          ELSE next_tk(descent.ctx).tk)
    /\ UNCHANGED <<subject, event_loop, tokens, lin, p1, p2, p3, ast, word, expanded, pc>>

LastTk ==
    /\ descent' = Descent(last_tk(descent.ctx).ctx, descent.ctx, "last_tk", last_tk(descent.ctx).tk,
                          IF last_tk(descent.ctx).tk = <<>> THEN descent.consumed
                          ELSE last_tk(descent.ctx).tk)
    /\ UNCHANGED <<subject, event_loop, tokens, lin, p1, p2, p3, ast, word, expanded, pc>>

FrontTk ==
    /\ descent' = Descent(descent.ctx, descent.ctx, "front_tk", front_tk(descent.ctx), descent.consumed)
    /\ UNCHANGED <<subject, event_loop, tokens, lin, p1, p2, p3, ast, word, expanded, pc>>

BackTk ==
    /\ descent' = Descent(descent.ctx, descent.ctx, "back_tk", back_tk(descent.ctx), descent.consumed)
    /\ UNCHANGED <<subject, event_loop, tokens, lin, p1, p2, p3, ast, word, expanded, pc>>

\* a context is made of a queue of up to MaxCtxTokens words, then operated on
SpecCtx ==
    /\ \E n \in 0..MaxCtxTokens : tokens = Place(<<>>, [i \in 1..n |-> Word("a")])
    /\ descent = Descent(DescentContextNew(tokens), DescentContextNew(tokens), "new", <<>>, <<>>)
    /\ word = <<>> /\ pc = "parsed" /\ event_loop = NoResult /\ subject = NoResult
    /\ lin = NoResult /\ p1 = NoResult /\ p2 = NoResult /\ p3 = NoResult
    /\ ast = NoResult /\ expanded = NoResult
    /\ [][NextTk \/ LastTk \/ FrontTk \/ BackTk]_vars

\* C15: the span cursor is the span of the token consumed last, from the front
\* or from the back; front_tk and back_tk change neither queue nor cursor and
\* return the token at their end; next_tk and last_tk on an empty queue
\* return no value and leave queue and cursor as they were.
C15_CursorFollowsConsumed ==
    descent.op # "new" =>
        /\ descent.consumed # <<>> =>
               /\ mark_start(descent.ctx) = descent.consumed[1].span.start
               /\ mark_end(descent.ctx) = descent.consumed[1].span.end
        /\ descent.op \in {"front_tk", "back_tk"} => descent.ctx = descent.prev
        /\ descent.op \in {"next_tk", "last_tk"} /\ descent.prev.tokens = <<>> =>
               descent.ret = <<>> /\ descent.ctx = descent.prev

\* the same with the cursor looked at only after next_tk has returned a token
C15_HoldsForNextTk ==
    descent.op # "new" =>
        /\ descent.op = "next_tk" /\ descent.ret # <<>> =>
               /\ mark_start(descent.ctx) = descent.ret[1].span.start
               /\ mark_end(descent.ctx) = descent.ret[1].span.end
               /\ descent.ret[1] = Front(descent.prev.tokens)
               /\ descent.ctx.tokens = PopFront(descent.prev.tokens)
        /\ descent.op = "last_tk" /\ descent.ret # <<>> =>
               /\ descent.ret[1] = Back(descent.prev.tokens)
               /\ descent.ctx.tokens = PopBack(descent.prev.tokens)
        /\ descent.op \in {"front_tk", "back_tk"} => descent.ctx = descent.prev
        /\ descent.op \in {"next_tk", "last_tk"} /\ descent.prev.tokens = <<>> =>
               descent.ret = <<>> /\ descent.ctx = descent.prev

-----------------------------------------------------------------------------
(* if constructs written branch by branch: SpecCond *)

MaxCondTokens == 10

\* the queue begins with  if a then ; it grows by a word, a separator, a
\* whole nested if, an elif branch, an else or a fi
CondFrags ==
    { <<Word("a")>>, <<Kw("Cmdsep")>>, IfStmt, <<Kw("Elif"), Word("a"), Kw("Then")>>,
      <<Kw("Else")>>, <<Kw("Fi")>> }

SpecCond ==
    /\ InitQueue(Place(<<>>, <<Kw("If"), Word("a"), Kw("Then")>>))
    /\ [][(\E f \in CondFrags : Push(f, MaxCondTokens)) \/ GetTree]_vars

\* the number of if constructs that the token at position i lies in
Level(i) ==
    Cardinality({j \in 1..i : tokens[j].class = "If"})
        - Cardinality({j \in 1..(i - 1) : tokens[j].class = "Fi"})

\* the positions of the keywords of the outermost construct
Top(classes) == {i \in 1..Len(tokens) : tokens[i].class \in classes /\ Level(i) = 1}

\* the queue is one if construct: every if and elif is followed by a word
\* and then, at most one else follows the last branch, and the fi of the
\* first if is the last token
OneIfConstruct ==
    /\ pc = "parsed"
    /\ tokens[1].class = "If"
    /\ tokens[Len(tokens)].class = "Fi"
    /\ Top({"Fi"}) = {Len(tokens)}
    /\ \A i \in 1..Len(tokens) : Level(i) >= 1
    /\ \A i \in 1..Len(tokens) :
           tokens[i].class \in {"If", "Elif"} =>
               /\ i + 2 <= Len(tokens)
               /\ tokens[i + 1].class = "Ident"
               /\ tokens[i + 2].class = "Then"
    /\ \A i \in 1..Len(tokens) :
           tokens[i].class = "Then" => i > 2 /\ tokens[i - 2].class \in {"If", "Elif"}
    /\ \A l \in 1..Len(tokens) :
           LET elses == {i \in 1..Len(tokens) : tokens[i].class = "Else" /\ Level(i) = l} IN
           \A e \in elses : \A i \in (e + 1)..Len(tokens) :
               Level(i) = l /\ tokens[i].class \in {"Elif", "Else", "Then"} =>
                   \E f \in (e + 1)..(i - 1) : tokens[f].class = "Fi" /\ Level(f) = l

\* the i-th condition of the outermost construct, in source order
NthCondition(i) ==
    CHOOSE c \in Top({"If", "Elif"}) : Cardinality({d \in Top({"If", "Elif"}) : d <= c}) = i

\* C16: an if construct with k conditions, each followed by then, and an
\* optional else, closed by fi, is parsed into one If node whose cond_blocks
\* are the k (condition, body) pairs in source order and whose else_block is
\* there exactly when an else was written.
C16_OnePairPerCondition ==
    OneIfConstruct =>
        /\ ast.st = "ok"
        /\ Len(ast.v.deck) = 1
        /\ ast.v.deck[1].nd_type = "If"
        /\ Len(ast.v.deck[1].cond_blocks) = Cardinality(Top({"If", "Elif"}))
        /\ \A i \in 1..Len(ast.v.deck[1].cond_blocks) :
               i <= Cardinality(Top({"If", "Elif"})) =>
                   ast.v.deck[1].cond_blocks[i].condition.span = tokens[NthCondition(i) + 1].span
        /\ ast.v.deck[1].else_block # <<>> <=> Top({"Else"}) # {}

\* the same for the constructs whose last branch before fi is an else or ends
\* with a token that is not part of a nested construct
C16_HoldsWhenLastBodyHasTokens ==
    OneIfConstruct
        /\ (Top({"Else"}) # {} \/ tokens[Len(tokens) - 1].class \in {"Ident", "Cmdsep"}) =>
        /\ ast.st = "ok"
        /\ Len(ast.v.deck) = 1
        /\ ast.v.deck[1].nd_type = "If"
        /\ Len(ast.v.deck[1].cond_blocks) = Cardinality(Top({"If", "Elif"}))
        /\ \A i \in 1..Len(ast.v.deck[1].cond_blocks) :
               ast.v.deck[1].cond_blocks[i].condition.span = tokens[NthCondition(i) + 1].span
        /\ ast.v.deck[1].else_block # <<>> <=> Top({"Else"}) # {}

-----------------------------------------------------------------------------
(* while and until loops written token by token: SpecLoop *)

MaxLoopTokens == 5

SpecLoop ==
    /\ \E opener \in {"While", "Until"} : InitQueue(Place(<<>>, <<Kw(opener)>>))
    /\ [][(\E class \in {"LoopCond", "LoopBody", "Do", "Done"} : Push(<<Kw(class)>>, MaxLoopTokens))
          \/ GetTree]_vars

\* the tokens of the loop that opens the queue, up to its done if it has one
LoopTokens ==
    LET dones == {i \in 1..Len(tokens) : tokens[i].class = "Done"} IN
    IF dones = {} THEN 2..Len(tokens)
    ELSE 2..((CHOOSE d \in dones : \A e \in dones : d <= e) - 1)

LoopLacks(class) == \A i \in LoopTokens : tokens[i].class # class

\* C17: every Loop node has a condition and a body; a while or until that
\* lacks its condition token or its body token before done is rejected with a
\* parse error.
C17_LoopHasConditionAndBody ==
    pc = "parsed" =>
        /\ ast.st = "ok" =>
               \A n \in AllNodes(ast.v) :
                   n.nd_type = "Loop" =>
                       n.logic.condition # NodeNew /\ n.logic.body # NodeNew
        /\ LoopLacks("LoopCond") \/ LoopLacks("LoopBody") =>
               ast.st = "err" /\ ast.kind = "ParsingError"

\* the same for the loops that have their do
C17_HoldsWithDo ==
    pc = "parsed" /\ ~LoopLacks("Do") =>
        /\ ast.st = "ok" =>
               \A n \in AllNodes(ast.v) :
                   n.nd_type = "Loop" =>
                       n.logic.condition # NodeNew /\ n.logic.body # NodeNew
        /\ LoopLacks("LoopCond") \/ LoopLacks("LoopBody") =>
               ast.st = "err" /\ ast.kind = "ParsingError"

-----------------------------------------------------------------------------
(* for loops written token by token: SpecFor *)

MaxForTokens == 7

SpecFor ==
    /\ InitQueue(Place(<<>>, <<Kw("For")>>))
    /\ [][(\E f \in {Word("a"), Kw("In"), Kw("Cmdsep"), Kw("Do"), Kw("LoopBody"), Kw("Done")} :
               Push(<<f>>, MaxForTokens))
          \/ GetTree]_vars

\* the position of the first in of the queue, 0 if there is none
FirstIn ==
    LET ins == {i \in 1..Len(tokens) : tokens[i].class = "In"} IN
    IF ins = {} THEN 0 ELSE CHOOSE i \in ins : \A j \in ins : i <= j

\* no variable is written before in
ForLacksVariable == FirstIn = 2

\* the body, or the end of the loop, follows in at once
ForLacksArray ==
    /\ FirstIn > 2
    /\ FirstIn < Len(tokens)
    /\ tokens[FirstIn + 1].class \in {"Do", "LoopBody", "Done"}

\* C18: every For node has at least one loop variable and at least one
\* element in its array; a for with no variable before in, or no array
\* element before its body, is rejected with a parse error.
C18_ForHasVariablesAndArray ==
    pc = "parsed" =>
        /\ ast.st = "ok" =>
               \A n \in AllNodes(ast.v) :
                   n.nd_type = "For" => n.loop_vars # <<>> /\ n.loop_arr # <<>>
        /\ ForLacksVariable \/ ForLacksArray =>
               ast.st = "err" /\ ast.kind = "ParsingError"

\* the same for the loops whose body token comes after a do
C18_HoldsWithDo ==
    pc = "parsed"
        /\ (\A i \in 1..Len(tokens) :
                tokens[i].class = "LoopBody" /\ i > FirstIn =>
                    \E j \in 1..(i - 1) : tokens[j].class = "Do") =>
        /\ ast.st = "ok" =>
               \A n \in AllNodes(ast.v) :
                   n.nd_type = "For" => n.loop_vars # <<>> /\ n.loop_arr # <<>>
        /\ ForLacksVariable \/ ForLacksArray =>
               ast.st = "err" /\ ast.kind = "ParsingError"

-----------------------------------------------------------------------------
(* Closing keywords outside their constructs: SpecCloser *)

MaxCloserTokens == 4

CLOSERS == {"Do", "Done", "Then", "Elif", "Else", "Fi"}

\* queues without any opener: words, separators, redirections to a file and
\* closing keywords
SpecCloser ==
    /\ InitQueue(<<>>)
    /\ [][(\E f \in {Word("a"), Kw("Cmdsep"), RedirFile("Output")} \cup {Kw(c) : c \in CLOSERS} :
               Push(<<f>>, MaxCloserTokens))
          \/ GetTree]_vars

\* the position of the first closing keyword of the queue, 0 if there is none
FirstCloser ==
    LET cs == {i \in 1..Len(tokens) : tokens[i].class \in CLOSERS} IN
    IF cs = {} THEN 0 ELSE CHOOSE i \in cs : \A j \in cs : i <= j

\* the first closing keyword is reached by the parser: every redirection
\* operator before it is followed by the word that is its target
CloserReached ==
    /\ pc = "parsed"
    /\ FirstCloser > 0
    /\ \A i \in 1..(FirstCloser - 1) :
           tokens[i].class = "Redirection" => tokens[i + 1].class = "Ident"

-----------------------------------------------------------------------------
(* Simple commands with redirections among their words: SpecCmd *)

MaxCmdTokens == 6

\* the queue begins with the name of a command; it grows by a word, a
\* redirection to a descriptor, a redirection to a file with its target, or
\* an operator that ends the command
SpecCmd ==
    /\ InitQueue(Place(<<>>, <<Word("a")>>))
    /\ [][(\E f \in { <<Word("a")>>, <<Word("b")>>, <<RedirFd("Output")>>,
                      <<RedirFile("Output"), Word("f")>>, <<Kw("Pipe")>>, <<Kw("Cmdsep")>> } :
               Push(f, MaxCmdTokens))
          \/ GetTree]_vars

\* the position of the operator that ends the first command, one past the
\* end of the queue if there is none
FirstOperator ==
    LET ops == {i \in 1..Len(tokens) : tokens[i].class \in {"Pipe", "Cmdsep"}} IN
    IF ops = {} THEN Len(tokens) + 1 ELSE CHOOSE i \in ops : \A j \in ops : i <= j

\* the positions, in the first command, of the redirection operators, and of
\* the words that are no target of a redirection to a file
CmdRedirs == {i \in 1..(FirstOperator - 1) : tokens[i].class = "Redirection"}
CmdWords ==
    {i \in 1..(FirstOperator - 1) :
        /\ tokens[i].class = "Ident"
        /\ ~(i - 1 \in CmdRedirs /\ tokens[i - 1].redir.fd_target = <<>>)}

\* the k-th position of a set of positions
NthOf(S, k) == CHOOSE i \in S : Cardinality({j \in S : j < i}) = k - 1

\* the Redirection node of the operator at position i
RedirNodeAt(i) ==
    NdRedirection(tokens[i].span,
                  IF tokens[i].redir.fd_target = <<>>
                  THEN [tokens[i].redir EXCEPT !.file_target = <<tokens[i + 1]>>]
                  ELSE tokens[i].redir)

\* C20: the redirections written among the words of a simple command come
\* right after the command node, in the order in which they were written and
\* before the operator that ends the command; after the redirection pass the
\* command node has the words that are no redirection as its argv, in order,
\* and exactly those redirections as its redirection list, in order.
C20_RedirectionsBindToCommand ==
    pc = "parsed" =>
        /\ lin.st = "ok"
        /\ Len(lin.ctx.root) >= 1 + Cardinality(CmdRedirs)
        /\ lin.ctx.root[1].nd_type = "Command"
        /\ lin.ctx.root[1].argv = [k \in 1..Cardinality(CmdWords) |-> tokens[NthOf(CmdWords, k)]]
        /\ \A k \in 1..Cardinality(CmdRedirs) :
               lin.ctx.root[1 + k] = RedirNodeAt(NthOf(CmdRedirs, k))
        /\ FirstOperator <= Len(tokens) =>
               /\ Len(lin.ctx.root) >= 2 + Cardinality(CmdRedirs)
               /\ lin.ctx.root[2 + Cardinality(CmdRedirs)].nd_type = tokens[FirstOperator].class
               /\ lin.ctx.root[2 + Cardinality(CmdRedirs)].span = tokens[FirstOperator].span
        /\ p1.st = "ok"
        /\ p1.v[1] = [lin.ctx.root[1] EXCEPT
                         !.redirs = [k \in 1..Cardinality(CmdRedirs) |->
                                        RedirNodeAt(NthOf(CmdRedirs, k))]]

\* a command with a redirection to a file, a word after it, a second
\* redirection and the operator that ends it
C20_Witness ==
    /\ pc = "parsed"
    /\ Cardinality(CmdRedirs) = 2
    /\ \E i \in CmdRedirs : \E w \in CmdWords : i < w
    /\ FirstOperator <= Len(tokens)
    /\ p1.st = "ok"
    /\ Len(p1.v[1].redirs) = 2

-----------------------------------------------------------------------------
(* parse_linear in single-statement mode: SpecOnce *)

MaxOnceTokens == 6

\* parse_linear(ctx, true) on the queue: lin is the node queue when the
\* loop of the first phase is left, p3 the result of the call
ParseOnce ==
    /\ pc = "input"
    /\ lin' = parse_linear_scan(DescentContextNew(tokens), TRUE)
    /\ p1' = IF lin'.st = "ok" THEN redir_pass(lin'.ctx.root, <<>>) ELSE NoResult
    /\ p2' = IF p1'.st = "ok" THEN pipeline_pass(p1'.v) ELSE NoResult
    /\ p3' = parse_linear(DescentContextNew(tokens), TRUE)
    /\ pc' = "parsed"
    /\ UNCHANGED <<subject, event_loop, descent, tokens, ast, word, expanded>>

\* statements of every leading class, and the separator between them
SpecOnce ==
    /\ InitQueue(<<>>)
    /\ [][(\E f \in { <<Word("a")>>, <<Kw("Subshell")>>, <<Kw("CommandSub")>>,
                      <<Assign("x", "1")>>, <<Kw("FuncDef"), Word("a")>>, IfStmt,
                      LoopStmt("While"), <<Kw("Cmdsep")>> } :
               Push(f, MaxOnceTokens))
          \/ ParseOnce]_vars

\* the nodes of a queue that are commands or compound constructs
StatementNodes(root) ==
    {i \in 1..Len(root) :
        root[i].nd_type \notin {"Cmdsep", "And", "Or", "Pipe", "PipeBoth", "Redirection"}}

\* C21: a call of parse_linear in single-statement mode leaves its loop with
\* at most one command or compound-construct node in the node queue, whatever
\* the class of the first token of the statement.
C21_OnceAddsOneStatement ==
    pc = "parsed" /\ lin.st = "ok" => Cardinality(StatementNodes(lin.ctx.root)) <= 1

\* the same for the queues whose statements begin with a word or an opener
C21_HoldsForWordsAndOpeners ==
    pc = "parsed" /\ lin.st = "ok"
        /\ (\A i \in 1..Len(tokens) :
                tokens[i].class \notin {"Subshell", "CommandSub", "Assignment", "FuncDef"}) =>
        Cardinality(StatementNodes(lin.ctx.root)) <= 1

-----------------------------------------------------------------------------
(* propagate_redirections on a Root that carries redirections: SpecRoot *)

MaxRootTokens == 7
MaxRootRedirs == 2

\* the redirections that the Root carries: those of the construct whose body
\* it is, an output and an input redirection
RootRedirs ==
    [k \in 1..MaxRootRedirs |->
        NdRedirection(Span(88 + 2 * k, 89 + 2 * k),
                      Redir(IF k % 2 = 1 THEN "Output" ELSE "Input", <<2>>, <<>>))]

\* the statements of the queue are parsed into the deck of a Root, the Root
\* is given its first k redirections and handed to propagate_redirections
PropagateRoot(k) ==
    /\ pc = "input"
    /\ p3' = parse_linear(DescentContextNew(tokens), FALSE)
    /\ subject' = IF p3'.st = "ok"
                  THEN [NodeFrom(p3'.ctx.root, compute_span(tokens)) EXCEPT
                           !.redirs = SubSeq(RootRedirs, 1, k)]
                  ELSE NoResult
    /\ ast' = IF p3'.st = "ok" THEN propagate_redirections(subject') ELSE NoResult
    /\ pc' = "parsed"
    /\ UNCHANGED <<event_loop, descent, tokens, lin, p1, p2, word, expanded>>

SpecRoot ==
    /\ InitQueue(<<>>)
    /\ [][(\E f \in { <<Word("a")>>, <<RedirFd("Append")>>, <<Kw("Cmdsep")>>, IfStmt } :
               Push(f, MaxRootTokens))
          \/ \E k \in 0..MaxRootRedirs : PropagateRoot(k)]_vars

\* C22: propagate_redirections of a Root that carries r1..rk ends with a Root
\* whose own list is empty and whose deck holds, for every statement of the
\* deck and in the same order, the result of the propagation into that
\* statement with r1..rk put in front of its own redirections; a statement
\* that is a command ends with r1..rk followed by its own redirections.
C22_RootRedirsToEveryChild ==
    pc = "parsed" /\ p3.st = "ok" =>
        /\ ast.st = "ok"
        /\ ast.v.nd_type = "Root"
        /\ ast.v.redirs = <<>>
        /\ Len(ast.v.deck) = Len(subject.deck)
        /\ \A i \in 1..Len(subject.deck) :
               /\ OkV(ast.v.deck[i]) =
                      propagate_redirections(
                          [subject.deck[i] EXCEPT !.redirs = subject.redirs \o @])
               /\ subject.deck[i].nd_type = "Command" =>
                      ast.v.deck[i].redirs = subject.redirs \o subject.deck[i].redirs

\* a Root with two redirections over a command that has one of its own and
\* an if statement
C22_Witness ==
    /\ pc = "parsed" /\ p3.st = "ok" /\ ast.st = "ok"
    /\ Len(subject.redirs) = 2
    /\ \E i, j \in 1..Len(subject.deck) :
           /\ subject.deck[i].nd_type = "Command"
           /\ subject.deck[i].redirs # <<>>
           /\ Len(ast.v.deck[i].redirs) = 3
           /\ subject.deck[j].nd_type = "If"

-----------------------------------------------------------------------------
(* Alias names at the expansion engine: SpecAlias *)

MaxAliasChars == 3

SpecAlias ==
    /\ InitWord(<<>>)
    /\ [][(\E frag \in {<<"l">>, <<"a">>, <<"*">>, <<"{">>, <<"}">>, <<",">>, <<"\\">>} :
               Type(frag, {<<>>}, MaxAliasChars))
          \/ \E tk_type \in {"Ident", "String"} : \E expand_glob \in BOOLEAN :
                 ExpandToken(tk_type, expand_glob)]_vars

\* the token is neither a glob pattern nor a brace expansion and its text is
\* the name of an alias
IsAliasToken ==
    /\ pc = "expanded"
    /\ ~check_globs(word)
    /\ ~is_brace_expansion(word)
    /\ get_alias(word) # <<>>

\* C23: a token that is neither a glob pattern nor a brace expansion and
\* whose text is the name of an alias is replaced by the words of the alias,
\* the text of the alias split at single spaces.
C23_AliasReplacedByItsWords ==
    IsAliasToken =>
        /\ expanded.st = "ok"
        /\ [k \in 1..Len(expanded.v) |-> expanded.v[k].text]
               = split_spaces(get_alias(word)[1], <<>>)

\* what the engine does with such a token: it is handed on as it is
C23_AliasTokenUnchanged ==
    IsAliasToken =>
        /\ expanded.st = "ok"
        /\ [k \in 1..Len(expanded.v) |-> expanded.v[k].text] = <<word>>

-----------------------------------------------------------------------------
(* Tilde expansion: SpecTilde *)

MaxTildeChars == 4

SpecTilde ==
    /\ InitWord(<<>>)
    /\ [][(\E frag \in {<<"~">>, <<"/">>, <<"a">>, <<"\\">>} :
               Type(frag, {<<>>}, MaxTildeChars))
          \/ \E tk_type \in {"Ident", "String"} : \E expand_glob \in BOOLEAN :
                 ExpandToken(tk_type, expand_glob)]_vars

\* the tilde at position i stands at the start of the word or directly after
\* an unescaped slash
TildeInPlace(text, i) ==
    /\ text[i] = "~"
    /\ \/ i = 1
       \/ i > 1 /\ text[i - 1] = "/" /\ BackslashesBefore(text, i - 1) % 2 = 0

\* the text with the tildes at the positions of S replaced by the value of
\* HOME, every other character kept
RECURSIVE HomeAt(_, _, _)
HomeAt(text, i, S) ==
    IF i > Len(text) THEN <<>>
    ELSE (IF i \in S THEN replace_home(<<"~">>) ELSE <<text[i]>>) \o HomeAt(text, i + 1, S)

\* C24: tilde expansion replaces with the value of HOME only a tilde at the
\* start of the word or directly after an unescaped slash; every other tilde
\* of the word, mid-word or escaped, is left untouched.
C24_OnlyTildesInPlaceReplaced ==
    (pc = "expanded" /\ expanded.st = "ok" /\ Len(expanded.v) = 1) =>
        \E S \in SUBSET {i \in 1..Len(word) : TildeInPlace(word, i)} :
            expanded.v[1].text = consume_escapes(HomeAt(word, 1, S))

\* what the engine does: a word that passes check_home_expansion has every
\* tilde replaced, a word that does not pass has none replaced
C24_AllTildesOrNone ==
    (pc = "expanded" /\ expanded.st = "ok" /\ Len(expanded.v) = 1) =>
        expanded.v[1].text =
            consume_escapes(IF check_home_expansion(word) THEN replace_home(word) ELSE word)

-----------------------------------------------------------------------------
(* expand_arguments: the argv of a node is expanded and stored back *)

\* Node::get_argv: the argv of the four node kinds that carry one, empty
\* tokens removed; an InternalError for every other kind
get_argv(node) ==
    IF node.nd_type \in {"Command", "Function", "Builtin", "Subshell"}
    THEN OkV(SelectSeq(node.argv, LAMBDA arg : arg.text # <<>>))
    ELSE from_internal("Attempt to call get_argv() on a non-command node")

\* the loop of expand_arguments over argv: the first argument is the command
\* name and is pushed as it is, every other one is expanded and its tokens
\* that are not empty are pushed; globs are not expanded for expr
RECURSIVE expand_arguments_loop(_, _, _, _)
expand_arguments_loop(argv, i, expand_glob, expand_buffer) ==
    IF i > Len(argv) THEN OkV(expand_buffer)
    ELSE IF i = 1
    THEN expand_arguments_loop(argv, 2, argv[1].text # <<"e", "x", "p", "r">>,
                               Append(expand_buffer, argv[1]))
    ELSE Try(expand_token(argv[i], expand_glob),
             LAMBDA expanded_tokens :
                 expand_arguments_loop(argv, i + 1, expand_glob,
                     expand_buffer \o SelectSeq(expanded_tokens.v,
                                                LAMBDA token : token.text # <<>>)))

\* expand_arguments: the result of the call and the node as the call leaves it
expand_arguments(node) ==
    Bind(Try(get_argv(node),
             LAMBDA argv : expand_arguments_loop(argv.v, 1, TRUE, <<>>)),
         LAMBDA res :
             IF res.st # "ok" THEN [res |-> res, node |-> node]
             ELSE IF node.nd_type \in {"Builtin", "Command", "Subshell"}
             THEN [res |-> res, node |-> [node EXCEPT !.argv = res.v]]
             ELSE [res |-> from_internal("Called expand arguments on a non-command node"),
                   node |-> node])

MaxArgChars == 3

\* the nodes expand_arguments is called on: one of each kind that carries an
\* argv, and nodes of other kinds
ArgSubjects(argv) ==
    { NdArgv("Command", <<>>, SpanNew, {}, argv),
      NdArgv("Builtin", <<>>, SpanNew, {}, argv),
      NdBodyArgv("Subshell", <<>>, SpanNew, {}, "", argv),
      NdBodyArgv("Function", <<>>, SpanNew, {}, "", argv),
      NodeFrom(<<>>, SpanNew),
      OpNode("Cmdsep", SpanNew, {}) }

\* a node whose argv is a command name and the word, an empty token between
\* them, is handed to expand_arguments; subject is the node before the call,
\* ast the node after it
ExpandArguments(name, tk_type) ==
    /\ pc = "input"
    /\ \E node \in ArgSubjects(<<ETk("Ident", name, {}), ETk("Ident", <<>>, {}),
                                 ETk(tk_type, word, {})>>) :
           subject' = node
    /\ expanded' = expand_arguments(subject').res
    /\ ast' = expand_arguments(subject').node
    /\ pc' = "expanded"
    /\ UNCHANGED <<event_loop, descent, tokens, lin, p1, p2, p3, word>>

SpecArgs ==
    /\ InitWord(<<>>)
    /\ [][(\E frag \in {<<"a">>, <<"$">>, <<"X">>, <<" ">>, <<"*">>} :
               Type(frag, {<<>>}, MaxArgChars))
          \/ \E name \in {<<"a">>, <<"e", "x", "p", "r">>} :
                 \E tk_type \in {"Ident", "String"} : ExpandArguments(name, tk_type)]_vars

\* every argument of the node before the call can be expanded
ArgsExpand ==
    \A i \in 1..Len(subject.argv) :
        \/ subject.argv[i].text = <<>>
        \/ \A expand_glob \in BOOLEAN : expand_token(subject.argv[i], expand_glob).st = "ok"

\* the call succeeded and stored the expanded argv on the node: the command
\* name first and unexpanded, no empty token
ArgsStored ==
    /\ expanded.st = "ok"
    /\ ast = [subject EXCEPT !.argv = expanded.v]
    /\ expanded.v # <<>>
    /\ expanded.v[1] = subject.argv[1]
    /\ \A i \in 1..Len(expanded.v) : expanded.v[i].text # <<>>

\* the call returned an InternalError and left the node as it was
ArgsRefused ==
    /\ expanded.st = "err"
    /\ expanded.kind = "InternalError"
    /\ ast = subject

\* C25: expand_arguments succeeds on each of the four executable node kinds
\* Command, Builtin, Subshell and Function and stores the expanded argv on
\* the node; it returns an InternalError and leaves the node unchanged
\* exactly when it is called on a node of any other kind.
C25_FourKindsExpand ==
    pc = "expanded" =>
        /\ (subject.nd_type \in {"Command", "Builtin", "Subshell", "Function"}
              /\ ArgsExpand) => ArgsStored
        /\ ArgsRefused <=>
              subject.nd_type \notin {"Command", "Builtin", "Subshell", "Function"}

\* what expand_arguments does: three kinds are expanded, a Function node is
\* refused like the nodes without an argv
C25_HoldsWithoutFunction ==
    pc = "expanded" =>
        /\ (subject.nd_type \in {"Command", "Builtin", "Subshell"} /\ ArgsExpand)
              => ArgsStored
        /\ (subject.nd_type = "Function" /\ ArgsExpand) => ArgsRefused
        /\ subject.nd_type \notin {"Command", "Builtin", "Subshell", "Function"}
              => ArgsRefused
        /\ ArgsRefused => subject.nd_type \notin {"Command", "Builtin", "Subshell"}

-----------------------------------------------------------------------------
(* Progress of the event loop.  The runtime drives event_listen: an event
   that is in the channel is received and its handler runs.  Nothing obliges
   the signal listener or a subprocess to send.

   event_listen returns Ok(code) only when recv() yields None, that is when
   the channel is empty and every Sender is dropped.  The loop owns a Sender
   itself (the field sender, of which inbox() hands out clones), so that
   while event_listen runs recv() waits on an empty channel and never yields
   None: no handler sets the status returned.                               *)

SpecEventFair ==
    /\ SpecEvent
    /\ WF_vars(HandlePrompt) /\ WF_vars(HandleExit) /\ WF_vars(HandleNewAST)
    /\ WF_vars(HandleSubprocessExited) /\ WF_vars(HandleSignal)
    /\ WF_vars(HandleCatchError)

\* C26: when the event loop receives an Exit(code) event, event_listen
\* eventually terminates and returns that code as its result.
C26_ExitEndsLoop ==
    [](event_loop.last.ev = "Exit" =>
           <>(event_loop.status = "returned" /\ event_loop.code = event_loop.last.code))

\* what the handler of Exit does: it stores the code and the loop goes on
\* listening
C26_ExitStoresCode ==
    [][HandleExit => /\ event_loop'.code = Head(event_loop.receiver).code
                     /\ event_loop'.status = "listening"]_vars

\* the loop has just handled a NewAST event of an interactive shell whose
\* walk failed with an error that is not fatal: the CatchError event and the
\* Prompt event are the last two of the channel
WalkFailed ==
    /\ event_loop.last.ev = "NewAST"
    /\ Len(event_loop.receiver) >= 2
    /\ event_loop.receiver[Len(event_loop.receiver)].ev = "Prompt"
    /\ event_loop.receiver[Len(event_loop.receiver) - 1].ev = "CatchError"
    /\ ~is_fatal(event_loop.receiver[Len(event_loop.receiver) - 1].err)

\* the error of the failed walk has been reported and the loop listens
ErrorReported ==
    /\ event_loop.last.ev = "CatchError"
    /\ event_loop.report = "printed"
    /\ event_loop.status = "listening"

-----------------------------------------------------------------------------
(* Command separators next to a pipe operator, under SpecJoin *)

\* a pipe operator between two commands stands directly behind the command
\* separator that ends the first one, as in  a ; | b
PipeBehindSeparator ==
    \E i \in 3..(Len(tokens) - 1) :
        /\ tokens[i].class = "Pipe"
        /\ tokens[i - 1].class = "Cmdsep"
        /\ tokens[i - 2].class = "Ident"
        /\ tokens[i + 1].class = "Ident"

\* C28: a pipe operator only joins the nodes directly next to it; command
\* separators are discarded only in the chain pass, so that a command which
\* a separator parts from a pipe operator never becomes its operand and the
\* parse fails with a missing-operand error.
C28_SeparatorPartsPipeOperand ==
    (pc = "parsed" /\ PipeBehindSeparator /\ p1.st = "ok") =>
        /\ p3.st = "err"
        /\ p3.msg \in {"This pipeline is missing a left operand",
                       "This pipeline is missing a right operand"}

\* what the pipeline pass does: it drops every command separator itself, so
\* that no separator is left in its result
C28_PipelinePassDropsSeparators ==
    (pc = "parsed" /\ p2.st = "ok") =>
        \A i \in 1..Len(p2.v) : p2.v[i].nd_type # "Cmdsep"

-----------------------------------------------------------------------------
(* Precedence of the joining passes: statements of three distinct commands
   joined by pipe and chain operators                                       *)

MaxOrderTokens == 5

SpecOrder ==
    /\ InitQueue(<<>>)
    /\ [][(\E f \in {<<Word("a")>>, <<Word("b")>>, <<Word("c")>>,
                     <<Kw("Pipe")>>, <<Kw("LogicAnd")>>, <<Kw("LogicOr")>>} :
               Push(f, MaxOrderTokens))
          \/ GetTree]_vars

\* the shape of a node: a command is its name, a pipeline or a chain is its
\* kind and the shapes of its commands in order
RECURSIVE Shape(_)
Shape(node) ==
    IF node.nd_type \in {"Pipeline", "Chain"}
    THEN [kind |-> node.nd_type,
          commands |-> [i \in 1..Len(node.commands) |-> Shape(node.commands[i])]]
    ELSE [kind |-> "Command", commands |-> <<node.argv[1].text>>]

\* the command names below a node, from left to right
RECURSIVE Leaves(_)
Leaves(shape) ==
    IF shape.kind = "Command" THEN shape.commands
    ELSE IF shape.commands = <<>> THEN <<>>
    ELSE Leaves(Head(shape.commands))
             \o Leaves([kind |-> shape.kind, commands |-> Tail(shape.commands)])

ShapeOf(name) == [kind |-> "Command", commands |-> <<name>>]

\* the queue is  operand op1 operand op2 operand
ThreeOperands(ops1, ops2) ==
    /\ Len(tokens) = 5
    /\ \A i \in {1, 3, 5} : tokens[i].class = "Ident"
    /\ tokens[2].class \in ops1
    /\ tokens[4].class \in ops2

\* C29: the joining passes run in the order redirections, pipelines, chains,
\* so that a pipe binds tighter than a chain operator:  a | b && c  yields a
\* Chain of [Pipeline[a, b], c] and  a && b | c  a Chain of [a, Pipeline[b, c]];
\* the operands of a chain appear in source order.
C29_PipesBindTighter ==
    pc = "parsed" =>
        /\ ThreeOperands({"Pipe"}, {"LogicAnd", "LogicOr"}) =>
              /\ ast.st = "ok"
              /\ Len(ast.v.deck) = 1
              /\ Shape(ast.v.deck[1]) =
                     [kind |-> "Chain",
                      commands |-> <<[kind |-> "Pipeline",
                                      commands |-> <<ShapeOf(tokens[1].text),
                                                     ShapeOf(tokens[3].text)>>],
                                     ShapeOf(tokens[5].text)>>]
        /\ ThreeOperands({"LogicAnd", "LogicOr"}, {"Pipe"}) =>
              /\ ast.st = "ok"
              /\ Len(ast.v.deck) = 1
              /\ Shape(ast.v.deck[1]) =
                     [kind |-> "Chain",
                      commands |-> <<ShapeOf(tokens[1].text),
                                     [kind |-> "Pipeline",
                                      commands |-> <<ShapeOf(tokens[3].text),
                                                     ShapeOf(tokens[5].text)>>]>>]
        /\ ThreeOperands({"Pipe", "LogicAnd", "LogicOr"}, {"Pipe", "LogicAnd", "LogicOr"}) =>
              /\ ast.st = "ok"
              /\ Len(ast.v.deck) = 1
              /\ Leaves(Shape(ast.v.deck[1])) = <<tokens[1].text, tokens[3].text, tokens[5].text>>

\* a && b | c  has been parsed
C29_Witness ==
    /\ pc = "parsed"
    /\ ThreeOperands({"LogicAnd"}, {"Pipe"})
    /\ <<tokens[1].text, tokens[3].text, tokens[5].text>> = <<"a", "b", "c">>
    /\ ast.st = "ok"
    /\ ast.v.deck[1].nd_type = "Chain"

-----------------------------------------------------------------------------
(* Statement order in the body of an if and of a select: SpecBody *)

MaxBodyTokens == 9

IfHead == <<Kw("If"), Word("a"), Kw("Then")>>
SelectHead == <<Kw("Select"), Word("v"), Kw("In"), Word("o"), Kw("Do")>>
NestedIf == <<Kw("If"), Word("b"), Kw("Then"), Word("c"), Kw("Fi"), Kw("Cmdsep")>>

\* the first token of the body
BodyStart == IF tokens[1].class = "If" THEN Len(IfHead) + 1 ELSE Len(SelectHead) + 1

SpecBody ==
    /\ \E head \in {IfHead, SelectHead} : tokens = Place(<<>>, head)
    /\ word = <<>> /\ pc = "input"
    /\ lin = NoResult /\ p1 = NoResult /\ p2 = NoResult /\ p3 = NoResult
    /\ ast = NoResult /\ expanded = NoResult
    /\ event_loop = NoResult /\ descent = NoResult /\ subject = NoResult
    /\ [][(\E f \in {<<Word("x"), Kw("Cmdsep")>>, <<Word("d"), Kw("Cmdsep")>>, NestedIf,
                     <<Kw("Fi")>>, <<Kw("Done")>>} :
               Push(f, BodyStart - 1 + MaxBodyTokens))
          \/ GetTree]_vars

\* the number of if constructs of the body that are open before token i
BodyDepth(i) ==
    Cardinality({j \in BodyStart..(i - 1) : tokens[j].class = "If"})
        - Cardinality({j \in BodyStart..(i - 1) : tokens[j].class = "Fi"})

\* the statements of the body as they are written, from token i on: a
\* command is its name, a nested construct the class of its opener
RECURSIVE BodyWritten(_)
BodyWritten(i) ==
    IF i >= Len(tokens) THEN <<>>
    ELSE IF BodyDepth(i) = 0 /\ tokens[i].class = "If" THEN <<"If">> \o BodyWritten(i + 1)
    ELSE IF BodyDepth(i) = 0 /\ tokens[i].class = "Ident"
    THEN <<tokens[i].text>> \o BodyWritten(i + 1)
    ELSE BodyWritten(i + 1)

\* the statements of a Root in the order of its node list
BodyListed(root) ==
    [k \in 1..Len(root.deck) |->
        IF root.deck[k].nd_type = "Command" THEN root.deck[k].argv[1].text
        ELSE root.deck[k].nd_type]

\* the queue is one if or one select whose body is closed by its last token,
\* and it has been parsed to one node that has the body
OneConstructParsed ==
    /\ pc = "parsed"
    /\ ast.st = "ok"
    /\ Len(ast.v.deck) = 1
    /\ ast.v.deck[1].nd_type \in {"If", "Select"}
    /\ ast.v.deck[1].nd_type = "If" => ast.v.deck[1].cond_blocks # <<>>
    /\ \A i \in BodyStart..(Len(tokens) - 1) :
           tokens[i].class \in {"Fi", "Done"} => BodyDepth(i) > 0

TheBody ==
    IF ast.v.deck[1].nd_type = "If" THEN ast.v.deck[1].cond_blocks[1].body
    ELSE ast.v.deck[1].body

\* C30: the body Root of an if-branch and of a select lists its statements in
\* source order, also when a nested compound construct is followed by
\* further statements in the same body: a statement written after the nested
\* construct comes after it in the node list of the Root.
C30_BodyInSourceOrder ==
    OneConstructParsed => BodyListed(TheBody) = BodyWritten(BodyStart)

\* the order is kept in the bodies in which no statement follows a nested
\* construct
C30_HoldsWhenNestedIsLast ==
    (/\ OneConstructParsed
     /\ \A i \in BodyStart..Len(tokens) : \A j \in (i + 1)..Len(tokens) :
            (BodyDepth(i) = 0 /\ tokens[i].class = "If")
                => ~(BodyDepth(j) = 0 /\ tokens[j].class = "Ident"))
        => BodyListed(TheBody) = BodyWritten(BodyStart)

-----------------------------------------------------------------------------
(* A statement sequence at top level and as the body of an if: SpecSame *)

MaxSameTokens == 7

\* the sequence S between  if a ; then  and  fi
WrapIf(S) ==
    Place(Place(Place(<<>>, <<Kw("If"), Word("a"), Kw("Cmdsep"), Kw("Then")>>), S),
          <<Kw("Fi")>>)

\* tokens is the sequence S; p3 is the tree of S parsed at top level, ast the
\* tree of  if a ; then S fi
ParseInBothPlaces ==
    /\ pc = "input"
    /\ p3' = get_tree(DescentContextNew(tokens))
    /\ ast' = get_tree(DescentContextNew(WrapIf(tokens)))
    /\ pc' = "parsed"
    /\ UNCHANGED <<subject, event_loop, descent, tokens, lin, p1, p2, word, expanded>>

SpecSame ==
    /\ InitQueue(<<>>)
    /\ [][(\E f \in {<<Word("x")>>, <<Kw("Cmdsep")>>, <<Kw("Pipe")>>, <<Kw("LogicAnd")>>,
                     <<Kw("If"), Word("b"), Kw("Then"), Word("c"), Kw("Fi")>>} :
               Push(f, MaxSameTokens))
          \/ ParseInBothPlaces]_vars

\* a node without its spans: its kind, the name of a command, and the
\* outlines of the nodes below it (the commands of a pipeline or a chain, the
\* condition and body Roots of the pairs of an if, the nodes of a Root)
RECURSIVE Outline(_)
Outline(node) ==
    [kind |-> node.nd_type,
     name |-> IF node.nd_type = "Command" THEN node.argv[1].text ELSE "",
     parts |->
         IF node.nd_type \in {"Pipeline", "Chain"}
         THEN [i \in 1..Len(node.commands) |-> Outline(node.commands[i])]
         ELSE IF node.nd_type = "Root"
         THEN [i \in 1..Len(node.deck) |-> Outline(node.deck[i])]
         ELSE IF node.nd_type = "If"
         THEN [i \in 1..(2 * Len(node.cond_blocks)) |->
                  IF i % 2 = 1 THEN Outline(node.cond_blocks[(i + 1) \div 2].condition)
                  ELSE Outline(node.cond_blocks[i \div 2].body)]
         ELSE <<>>]

\* C31: parsing a statement sequence as the body of an if gives the same
\* result as parsing it at top level.  Every sequence S that parses at top
\* level to the node list N also parses inside  if a ; then S fi , and the
\* node list of the body Root is N; a pipeline or chain with a nested
\* construct as operand is built alike in both places.
C31_BodyParsesLikeTopLevel ==
    (pc = "parsed" /\ tokens # <<>> /\ p3.st = "ok") =>
        /\ ast.st = "ok"
        /\ Len(ast.v.deck) = 1
        /\ ast.v.deck[1].nd_type = "If"
        /\ Len(ast.v.deck[1].cond_blocks) = 1
        /\ Outline(ast.v.deck[1].cond_blocks[1].body).parts = Outline(p3.v).parts

\* the two places agree for the sequences without a nested construct and
\* with at most one operator
C31_HoldsForPlainStatements ==
    (/\ pc = "parsed" /\ tokens # <<>> /\ p3.st = "ok"
     /\ \A i \in 1..Len(tokens) : tokens[i].class # "If"
     /\ Cardinality({i \in 1..Len(tokens) : tokens[i].class \in {"Pipe", "LogicAnd"}}) <= 1) =>
        /\ ast.st = "ok"
        /\ Len(ast.v.deck) = 1
        /\ ast.v.deck[1].nd_type = "If"
        /\ Len(ast.v.deck[1].cond_blocks) = 1
        /\ Outline(ast.v.deck[1].cond_blocks[1].body).parts = Outline(p3.v).parts

-----------------------------------------------------------------------------
(* The statements of an if construct and of its node, under SpecCond *)

\* the statements written in the conditions and bodies of the outermost
\* construct: the commands (a word that follows no other word) and the
\* nested constructs directly below it
WrittenStatements ==
    Cardinality({i \in 2..Len(tokens) :
                    \/ Level(i) = 1 /\ tokens[i].class = "Ident" /\ tokens[i - 1].class # "Ident"
                    \/ Level(i) = 2 /\ tokens[i].class = "If"})

RECURSIVE PairStatements(_)
PairStatements(cond_blocks) ==
    IF cond_blocks = <<>> THEN 0
    ELSE Len(Head(cond_blocks).condition.deck) + Len(Head(cond_blocks).body.deck)
             + PairStatements(Tail(cond_blocks))

\* the statements of the pairs and of the else block of an If node
ListedStatements(node) ==
    PairStatements(node.cond_blocks)
        + (IF node.else_block = <<>> THEN 0 ELSE Len(node.else_block[1].deck))

\* C32: every If node of a successful build_if has at least one (condition,
\* body) pair, and no statement written in a condition or a body is lost:
\* each of them, a nested construct parsed into the body included, is in some
\* pair or in the else block of the node.
C32_NoStatementLost ==
    (OneIfConstruct /\ ast.st = "ok") =>
        /\ Len(ast.v.deck) = 1
        /\ ast.v.deck[1].nd_type = "If"
        /\ Len(ast.v.deck[1].cond_blocks) >= 1
        /\ ListedStatements(ast.v.deck[1]) = WrittenStatements

\* the same for the constructs without an else whose last body ends with a
\* token that is not part of a nested construct
C32_HoldsWhenLastBodyHasTokens ==
    (/\ OneIfConstruct /\ ast.st = "ok"
     /\ Top({"Else"}) = {}
     /\ tokens[Len(tokens) - 1].class \in {"Ident", "Cmdsep"}) =>
        /\ Len(ast.v.deck) = 1
        /\ ast.v.deck[1].nd_type = "If"
        /\ Len(ast.v.deck[1].cond_blocks) >= 1
        /\ ListedStatements(ast.v.deck[1]) = WrittenStatements

-----------------------------------------------------------------------------
(* Redirections in the tree of get_tree: statements of commands, if and
   while constructs, redirections and pipes: SpecTree                      *)

MaxTreeTokens == 8

SpecTree ==
    /\ InitQueue(<<>>)
    /\ [][(\E f \in {<<Word("a")>>, <<RedirFd("Output")>>, <<Kw("Pipe")>>,
                     IfStmt, LoopStmt("While"),
                     <<Kw("If"), Word("a"), Kw("Then"), Word("a"), Kw("Else"), Word("a"),
                       Kw("Fi")>>} :
               Push(f, MaxTreeTokens))
          \/ GetTree]_vars

\* the redirections on the nodes of a tree
RedirsIn(tree) ==
    UNION {{n.redirs[k] : k \in 1..Len(n.redirs)} : n \in AllNodes(tree)}

\* C33: after a successful get_tree no If, Loop, For or Select node of the
\* tree, one that is an operand of a Pipeline or a Chain included, holds a
\* redirection, and no redirection attached during parsing has been dropped:
\* each one sits on some node of the final tree.
C33_FlowRedirsPropagated ==
    (pc = "parsed" /\ ast.st = "ok") =>
        /\ \A n \in AllNodes(ast.v) :
               n.nd_type \in {"If", "Loop", "For", "Select"} => n.redirs = <<>>
        /\ RedirsIn(NodeFrom(p3.ctx.root, SpanNew)) \subseteq RedirsIn(ast.v)

\* the same for the trees in which no construct is an operand: the queues
\* without a pipe operator
C33_HoldsWithoutOperators ==
    (/\ pc = "parsed" /\ ast.st = "ok"
     /\ \A i \in 1..Len(tokens) : tokens[i].class # "Pipe") =>
        /\ \A n \in AllNodes(ast.v) :
               n.nd_type \in {"If", "Loop", "For", "Select"} => n.redirs = <<>>
        /\ RedirsIn(NodeFrom(p3.ctx.root, SpanNew)) \subseteq RedirsIn(ast.v)

\* no node of the tree holds the same redirection twice
NoRedirTwice(tree) ==
    \A n \in AllNodes(tree) :
        \A j, k \in 1..Len(n.redirs) : n.redirs[j] = n.redirs[k] => j = k

\* C34: propagate_redirections is idempotent: applied to a tree that it has
\* processed it returns the same tree, so that the else block of an if, which
\* is propagated when get_tree builds it and again by the pass over the whole
\* tree, never receives a redirection twice.
C34_PropagationIdempotent ==
    (pc = "parsed" /\ ast.st = "ok") =>
        /\ propagate_redirections(ast.v) = ast
        /\ NoRedirTwice(ast.v)

\* an if with an else block and a redirection has been parsed: the command
\* of the else block holds the redirection
C34_Witness ==
    /\ pc = "parsed"
    /\ ast.st = "ok"
    /\ Len(ast.v.deck) = 1
    /\ ast.v.deck[1].nd_type = "If"
    /\ ast.v.deck[1].else_block # <<>>
    /\ ast.v.deck[1].else_block[1].deck # <<>>
    /\ Len(ast.v.deck[1].else_block[1].deck[1].redirs) = 1

-----------------------------------------------------------------------------
(* Progress of the parser on its token queue: SpecWork *)

MaxWorkTokens == 5

\* the queue is parsed in the three ways in which the parser works on it:
\* p3 is the result of one single-statement parse_linear call (an iteration
\* of parse_and_attach), subject the result of build_command (an iteration
\* of parse_linear that builds a command), ast the result of get_tree
ParseWork ==
    /\ pc = "input"
    /\ p3' = parse_linear(DescentContextNew(tokens), TRUE)
    /\ subject' = build_command(DescentContextNew(tokens))
    /\ ast' = get_tree(DescentContextNew(tokens))
    /\ pc' = "parsed"
    /\ UNCHANGED <<event_loop, descent, tokens, lin, p1, p2, word, expanded>>

SpecWork ==
    /\ InitQueue(<<>>)
    /\ [][(\E f \in {<<Word("a")>>, <<RedirFd("Output")>>, <<RedirFile("Output")>>,
                     <<Kw("Cmdsep")>>, <<Kw("If")>>, <<Kw("Then")>>, <<Kw("Fi")>>} :
               Push(f, MaxWorkTokens))
          \/ ParseWork]_vars

\* C35: get_tree terminates on every finite token queue.  Every iteration
\* of parse_and_attach (a single-statement parse_linear call) and every
\* iteration of parse_linear that builds a command leaves fewer tokens in the
\* queue than it found, although build_command pushes the held redirections
\* and the operator that ends the command back to the front of the queue.
C35_EveryIterationConsumes ==
    (pc = "parsed" /\ tokens # <<>>) =>
        /\ ast.st \in {"ok", "err", "panic"}
        /\ p3.st = "ok" => Len(p3.ctx.tokens) < Len(tokens)
        /\ (subject.st = "ok" /\ tokens[1].class = "Ident") =>
               Len(subject.ctx.tokens) < Len(tokens)

\* build_command has pushed a held redirection and the separator back to the
\* front of the queue
C35_Witness ==
    /\ pc = "parsed"
    /\ Len(tokens) >= 3
    /\ tokens[1].class = "Ident"
    /\ subject.st = "ok"
    /\ Len(subject.ctx.tokens) >= 2
    /\ subject.ctx.tokens[1].class = "Redirection"
    /\ subject.ctx.tokens[2].class = "Cmdsep"
    /\ ast.st = "ok"

-----------------------------------------------------------------------------
(* Termination of expand_token, under SpecToken *)

\* C36: expand_token terminates for every input token: the working buffer
\* becomes empty in the end, also for a token whose text is a lone dollar
\* sign and for the tokens that were queued again.
C36_ExpandTokenTerminates ==
    pc = "expanded" => expanded.st # "diverges"

\* The same for the words in which every dollar sign is escaped: their
\* expansion ends, whatever is queued again on the way.
C36_TerminatesWithoutDollar ==
    (pc = "expanded" /\ ~has_unescaped(word, "$")) => expanded.st # "diverges"

-----------------------------------------------------------------------------
(* Termination of expand_var, under SpecVar *)

\* C37: expand_var terminates for every input string and every variable
\* environment, also where the value of a variable refers to the variable
\* itself (W is set to the text $W): the call returns a string, an error or
\* a panic.
C37_ExpandVarTerminates ==
    pc = "expanded" => expanded.st \in {"ok", "err", "panic"}

\* The same for the words that do not name the variable W, whose value is a
\* reference to itself: Y, whose value refers to X, is expanded to the end.
C37_TerminatesWithoutSelfReference ==
    (pc = "expanded" /\ \A i \in 1..Len(word) : word[i] # "W") =>
        expanded.st \in {"ok", "err", "panic"}

-----------------------------------------------------------------------------
(* Adjacent brace groups between literal text: SpecAdjacent *)

MaxAdjacentChars == 12

SpecAdjacent ==
    /\ InitWord(<<>>)
    /\ [][(\E frag \in {<<"p">>, <<"q">>, <<"{", "a", ",", "b", "}">>,
                        <<"{", "c", ",", "d", "}">>} :
               Type(frag, {<<>>}, MaxAdjacentChars))
          \/ ExpandBraces]_vars

\* the alternatives of the groups of SpecAdjacent, in their order
GroupAlternatives == { << <<"a">>, <<"b">> >>, << <<"c">>, <<"d">> >> }

\* the group of two alternatives as it is written
Group(alts) == <<"{">> \o alts[1] \o <<",">> \o alts[2] \o <<"}">>

\* literal text
IsLiteral(text) == \A i \in 1..Len(text) : text[i] \in {"p", "q"}

\* every word of sequence mid between the preamble and the postamble
Surround(pre, mid, post) == [k \in 1..Len(mid) |-> pre \o mid[k] \o post]

\* the word is  pre{A}{B}post
IsAdjacentWord(wd, pre, A, B, post) ==
    /\ IsLiteral(pre) /\ IsLiteral(post)
    /\ wd = pre \o Group(A) \o Group(B) \o post

\* the word is  pre{A}post
IsSingleWord(wd, pre, A, post) ==
    /\ IsLiteral(pre) /\ IsLiteral(post)
    /\ wd = pre \o Group(A) \o post

\* C39: a word of two adjacent brace groups between literal text,
\* pre{A}{B}post, expands to the cross product of the two groups with the
\* preamble and the postamble kept on every result, as a word of a single
\* group pre{A}post keeps them.
C39_AdjacentGroupsKeepAffixes ==
    pc = "expanded" =>
        \A i \in 0..Len(word) : \A j \in i..Len(word) :
        \A A \in GroupAlternatives : \A B \in GroupAlternatives :
            /\ IsAdjacentWord(word, SubSeq(word, 1, i), A, B,
                              SubSeq(word, j + 1, Len(word)))
                   => expanded = OkV(Surround(SubSeq(word, 1, i), cross_product(A, B),
                                              SubSeq(word, j + 1, Len(word))))
            /\ IsSingleWord(word, SubSeq(word, 1, i), A, SubSeq(word, j + 1, Len(word)))
                   => expanded = OkV(Surround(SubSeq(word, 1, i), A,
                                              SubSeq(word, j + 1, Len(word))))

\* What holds: a single group keeps the preamble and the postamble, and two
\* adjacent groups expand to their cross product when no literal text
\* surrounds them.
C39_SingleGroupKeepsAffixes ==
    pc = "expanded" =>
        \A i \in 0..Len(word) : \A j \in i..Len(word) :
        \A A \in GroupAlternatives : \A B \in GroupAlternatives :
            /\ word = Group(A) \o Group(B) => expanded = OkV(cross_product(A, B))
            /\ IsSingleWord(word, SubSeq(word, 1, i), A, SubSeq(word, j + 1, Len(word)))
                   => expanded = OkV(Surround(SubSeq(word, 1, i), A,
                                              SubSeq(word, j + 1, Len(word))))

-----------------------------------------------------------------------------
(* The event loop and the signal listener on the bounded channel: SpecInbox.
   The handlers are taken apart at their await points: a send to the channel
   completes when the channel has room and waits otherwise.  The field
   sending holds the events that the loop has yet to send before it receives
   again; status is sending where event_listen itself sends (the first
   Prompt, CatchError and Prompt after NewAST) and prompting where the
   prompt sends on behalf of the loop. *)

\* the capacity of the channel, mpsc::channel(100), scaled down
MaxInbox == 3

InboxErrors == {ShellErr("ExecFailed", SpanAt(1)), ShellErr("IoError", SpanAt(1))}

Waiting(receiver, sending, code, status, last) ==
    [receiver |-> receiver, sending |-> sending, code |-> code,
     status |-> IF sending = <<>> THEN "listening" ELSE status,
     last |-> last, report |-> "none"]

\* event_listen: one step of the loop task between two await points
EventListen ==
    /\ \/ /\ event_loop.status \in {"sending", "prompting"}
          /\ Len(event_loop.receiver) < MaxInbox
          /\ event_loop' = Waiting(Append(event_loop.receiver, Head(event_loop.sending)),
                                   Tail(event_loop.sending), event_loop.code,
                                   event_loop.status, event_loop.last)
       \/ /\ Recv("Prompt")
          /\ \E sent \in {<<>>, <<ShellEvent("NewAST", 0, NoResult)>>,
                          <<ShellEvent("Exit", 1, NoResult)>>}
                         \cup {<<ShellEvent("CatchError", 0, e)>> : e \in InboxErrors} :
                 event_loop' = Waiting(Tail(event_loop.receiver), sent, event_loop.code,
                                       "prompting", Head(event_loop.receiver))
       \/ /\ Recv("NewAST")
          /\ \E walk \in {<<>>} \cup {<<ShellEvent("CatchError", 0, e)>> : e \in InboxErrors} :
             \E is_interactive \in BOOLEAN :
                 event_loop' =
                     Waiting(Tail(event_loop.receiver),
                             walk \o (IF is_interactive
                                      THEN <<ShellEvent("Prompt", 0, NoResult)>> ELSE <<>>),
                             event_loop.code, "sending", Head(event_loop.receiver))
       \/ /\ Recv("Exit")
          /\ event_loop' = Waiting(Tail(event_loop.receiver), <<>>,
                                   Head(event_loop.receiver).code, "listening",
                                   Head(event_loop.receiver))
       \/ /\ Recv("Signal")
          /\ event_loop' = Waiting(Tail(event_loop.receiver), <<>>, event_loop.code,
                                   "listening", Head(event_loop.receiver))
       \/ /\ Recv("CatchError")
          /\ event_loop' =
                 IF is_fatal(Head(event_loop.receiver).err)
                 THEN [Waiting(Tail(event_loop.receiver), <<>>, 1, "listening",
                               Head(event_loop.receiver)) EXCEPT !.status = "exited"]
                 ELSE Waiting(Tail(event_loop.receiver), <<>>, event_loop.code,
                              "listening", Head(event_loop.receiver))
    /\ UNCHANGED <<subject, descent, tokens, lin, p1, p2, p3, ast, word, expanded, pc>>

\* signal_listen: a signal arrives and the listener sends it to the loop; at
\* a full channel the listener waits
SignalListen ==
    /\ event_loop.status # "exited"
    /\ Len(event_loop.receiver) < MaxInbox
    /\ event_loop' = [event_loop EXCEPT
                         !.receiver = Append(@, ShellEvent("Signal", 0, NoResult))]
    /\ UNCHANGED <<subject, descent, tokens, lin, p1, p2, p3, ast, word, expanded, pc>>

\* listen has spawned the listener, event_listen is about to send the first
\* Prompt
SpecInbox ==
    /\ tokens = <<>> /\ word = <<>> /\ pc = "input"
    /\ lin = NoResult /\ p1 = NoResult /\ p2 = NoResult /\ p3 = NoResult
    /\ ast = NoResult /\ expanded = NoResult
    /\ event_loop = [receiver |-> <<>>, sending |-> <<ShellEvent("Prompt", 0, NoResult)>>,
                     code |-> 0, status |-> "sending",
                     last |-> ShellEvent("None", 0, NoResult), report |-> "none"]
    /\ descent = NoResult /\ subject = NoResult
    /\ [][EventListen \/ SignalListen]_vars

\* the loop is at a send of its own and the channel has no room
SelfSendWaits ==
    event_loop.status = "sending" /\ Len(event_loop.receiver) = MaxInbox

SignalsIn(receiver) == Cardinality({k \in 1..Len(receiver) : receiver[k].ev = "Signal"})

\* C38: the event loop cannot deadlock on its own inbox.  Whenever the loop
\* sends an event to itself (the first Prompt, CatchError or Prompt after
\* NewAST) the send completes, in every interleaving with the sends of the
\* signal listener: the loop, which alone receives, never waits for room in
\* a full channel.
C38_SelfSendCompletes == ~SelfSendWaits

\* What holds: the events of the loop itself never fill the channel, the
\* loop waits at a send only behind the events of the signal listener.
C38_WaitsOnlyBehindSignals ==
    SelfSendWaits => SignalsIn(event_loop.receiver) >= MaxInbox - 1

====
